---- MODULE Spec2Model ----
(***************************************************************************)
(* A model of resetti's instance state machine.                            *)
(*                                                                         *)
(*  - mc.Manager (src/internal/mc/instance.go): the registry of instance   *)
(*    states, Play, Reset and the state-file loop Run.                     *)
(*  - ctl.Controller (src/manager/worker.go, second half): ResetInstance   *)
(*    and the reset counter's Increment.                                   *)
(*  - manager.Worker (src/manager/worker.go, first half): the per-instance *)
(*    log reader readState/updateState and its run loop.                   *)
(*                                                                         *)
(* Every action is one whole handler.  The X operations a handler issues   *)
(* and what it returns are recorded in the variable out, which holds the   *)
(* record of the most recent handler only.                                 *)
(***************************************************************************)
EXTENDS Integers, Sequences, FiniteSets, Bags, TLC

(***************************************************************************)
(* Bounds of the model.                                                    *)
(***************************************************************************)
NumInstances == 2      \* instances under management
GracePeriod == 1       \* conf.Wall.GracePeriod, in clock ticks
TimeSteps == 1         \* clock ticks the model lets pass
MaxResets == 2         \* accepted resets the model counts
MaxLines == 2          \* complete lines in one log batch (Worker)
MaxStamp == 2          \* largest X timestamp handed to a Worker call
BufferSize == 1        \* ctl.bufferSize (16 in the source), scaled down
MaxBoots == 1          \* manager reboots CmdReset attempts in the model
MaxConcResets == 1     \* largest conf.AdvancedWall.ConcResets (0 is "no cap")
MaxPending == 2        \* sleeping goroutines and queued ids of the wall
MaxWallStamp == 1      \* largest X timestamp of an event the wall handles
WallStamps == 1 .. MaxWallStamp
MaxWallEvents == 6     \* events and goroutine steps in one run of ResetWall
MaxKeys == 2           \* keys of the keyboard the bindings are made of
MaxButtons == 1        \* buttons of the pointer the bindings are made of
MaxBinds == 3          \* bindings in conf.Keybinds

(***************************************************************************)
(* Program constants.                                                      *)
(***************************************************************************)
NoActive == -1         \* Manager.active: "-1 signals no active instance"
MaxResetProgress == 85 \* Manager.Reset: Preview above this is not resettable
ErrchCap == 1          \* ctl.Run: errch := make(chan error, 1)

Ids == 0 .. (NumInstances - 1)

\* ctl.Run: evtch := make(chan mc.Update, bufferSize*len(instances))
EvtchCap == BufferSize * NumInstances

\* stWorld, the state type only the reader reports. The public types are
\* "Idle", "Generating", "Preview", "Ingame" and "Dirt".
StWorld == "World"

\* Values of State.Progress the reader reports for a preview: both sides of
\* the MaxResetProgress boundary.
ProgressValues == {0, MaxResetProgress, MaxResetProgress + 1}

\* What stateReader.Process() hands to Manager.Run when updated is true: the
\* reader reports the preview, generation, dirt screen or a loaded world.
ReaderStates ==
    [Type : {StWorld, "Generating", "Dirt"}, Progress : {0}]
        \cup [Type : {"Preview"}, Progress : ProgressValues]

VARIABLES
    conf,       \* cfg.Profile: WallEnabled, UnpauseFocus, UseF1, CountResets
    now,        \* the wall clock (time.Now), in ticks
    active,     \* Manager.active
    instances,  \* Manager.instances[id].state: Type, Progress, LastPreview
    mgrPc,      \* Manager.Run: "run" while its loop runs, "done" once returned
    watcherOpen,\* the fsnotify watcher's channels are open
    errch,      \* number of errors queued on errch (capacity ErrchCap)
    resets,     \* Manager.Reset calls that returned true
    incs,       \* values sent on counter.inc by counter.Increment
    cancelled,  \* ctx.Done() is closed
    out,        \* what the most recent handler did
    wk,         \* the Worker (manager.Worker) of one instance
    evtch,      \* number of Updates queued on evtch (capacity EvtchCap)
    sending,    \* the instance whose Update Manager.Run is blocked sending
    ctr,        \* the reset counter: pc of counter.Run, its count and file
    wl,         \* the wall (wallState of ResetWall) and its instances
    im,         \* the inputManager: conf.Keybinds and lastBinds
    disc,       \* FindInstances: the windows it is given and what it returns
    ctlPc       \* Controller.run: "select" in its loop, "lock" in m.mu.Lock()

vars == <<conf, now, active, instances, mgrPc, watcherOpen, errch, cancelled,
          resets, incs, out, wk, evtch, sending, ctr, wl, im,
          disc, ctlPc>>

----------------------------------------------------------------------------
(***************************************************************************)
(* X operations, as records appended to out.ops.                           *)
(***************************************************************************)
KeyDown(id, key) == [op |-> "KeyDown", id |-> id, arg |-> key]
KeyPress(id, key) == [op |-> "KeyPress", id |-> id, arg |-> key]
KeyUp(id, key) == [op |-> "KeyUp", id |-> id, arg |-> key]
MoveWindow(id, rect) == [op |-> "MoveWindow", id |-> id, arg |-> rect]
FocusWindow(id) == [op |-> "FocusWindow", id |-> id, arg |-> "-"]

\* The record of one handler: which call, on which instance, on which input
\* (the state type its reader found, "-" if none), its return value, the X
\* operations in the order issued, the Updates sent on evtch (for a Worker:
\* the states handed to setState) and the errors sent on errch.
Outcome(call, id, input, ok, ops, updates, errs) ==
    [call |-> call, id |-> id, input |-> input, ok |-> ok, ops |-> ops,
     updates |-> updates, errs |-> errs]

NoOutcome == Outcome("none", NoActive, "-", FALSE, <<>>, <<>>, 0)

\* F3 down, Escape press, F3 up.
PauseMacro(id) == <<KeyDown(id, "F3"), KeyPress(id, "Esc"), KeyUp(id, "F3")>>

\* time.Since(t) for the current clock. The zero time.Time is clock value 0,
\* and the clock starts at GracePeriod, so the zero time is never recent.
Since(t) == now - t

ZeroState == [Type |-> "Idle", Progress |-> 0, LastPreview |-> 0]

\* A wall (ResetWall) that was never started.
WallOff ==
    [pc |-> "off",
     conf |-> [ConcResets |-> 0, Freeze |-> FALSE, GoToLocked |-> FALSE,
               Affinity |-> FALSE, UnpauseFocus |-> FALSE,
               ClickFocus |-> FALSE, StretchWindows |-> FALSE],
     states |-> [i \in Ids |-> "Idle"], lastTime |-> [i \in Ids |-> 0],
     locks |-> [i \in Ids |-> FALSE], frozen |-> [i \in Ids |-> FALSE],
     stopped |-> [i \in Ids |-> FALSE],
     current |-> 0, onWall |-> FALSE, grabbed |-> FALSE,
     forceFreeze |-> <<>>, toFreeze |-> <<>>, toUnfreeze |-> <<>>,
     timers |-> EmptyBag, ops |-> <<>>, handled |-> 0, lastMouseId |-> -1]

\* An inputManager that was never started.
InputOff == [pc |-> "off", binds |-> {}, lastBinds |-> <<>>]

\* A Worker that was never started.
WorkerOff ==
    [State |-> "Unknown", lastTime |-> 0, pc |-> "off", watcher |-> "none",
     errs |-> 0, boots |-> 0, active |-> FALSE, routines |-> 0,
     starts |-> 0]

----------------------------------------------------------------------------
(***************************************************************************)
(* mc.Manager                                                              *)
(***************************************************************************)

----------------------------------------------------------------------------
(***************************************************************************)
(* The reset counter (counter, newCounter, increment, write).  The file is *)
(* a sequence of characters; time is counted in half seconds.              *)
(***************************************************************************)
\* time.Second in clock steps.
Second == 2

\* The capacity of counter.inc.
IncCap == 64

\* The Increment calls one run makes, and the clock steps of a counter run.
MaxIncs == 3
MaxCtrTicks == 6

\* No write to the file has happened yet.
NoWrite == -1

DigitChars == <<"0", "1", "2", "3", "4", "5", "6", "7", "8", "9">>

IsDigit(c) == \E d \in 1 .. 10 : DigitChars[d] = c

DigitVal(c) == (CHOOSE d \in 1 .. 10 : DigitChars[d] = c) - 1

IsSpace(c) == c \in {" ", "\n"}

RECURSIVE TrimLeft(_)
TrimLeft(s) ==
    IF s # <<>> /\ IsSpace(Head(s)) THEN TrimLeft(Tail(s)) ELSE s

RECURSIVE TrimRight(_)
TrimRight(s) ==
    IF s # <<>> /\ IsSpace(s[Len(s)])
    THEN TrimRight(SubSeq(s, 1, Len(s) - 1))
    ELSE s

\* strings.TrimSpace.
TrimSpace(s) == TrimRight(TrimLeft(s))

RECURSIVE DecimalOf(_)
DecimalOf(s) ==
    IF s = <<>> THEN 0
    ELSE 10 * DecimalOf(SubSeq(s, 1, Len(s) - 1)) + DigitVal(s[Len(s)])

\* strconv.Atoi on a string without a sign: every character a digit and at
\* least one of them, else an error.
Atoi(s) ==
    IF s # <<>> /\ \A k \in 1 .. Len(s) : IsDigit(s[k])
    THEN [ok |-> TRUE, val |-> DecimalOf(s)]
    ELSE [ok |-> FALSE, val |-> 0]

\* strconv.Itoa of a count, which is never negative.
RECURSIVE Itoa(_)
Itoa(n) ==
    IF n < 10 THEN <<DigitChars[n + 1]>>
    ELSE Append(Itoa(n \div 10), DigitChars[(n % 10) + 1])

\* file.Seek(0, 0) then file.Write(buf): the bytes of buf replace the first
\* bytes of the file and what lay behind them stays.
WriteAt0(file, buf) == buf \o SubSeq(file, Len(buf) + 1, Len(file))

\* A counter that was never created.
CtrOff ==
    [pc |-> "off", count |-> 0, file |-> <<>>, file0 |-> <<>>,
     lastWrite |-> 0, taken |-> 0, wrote |-> NoWrite, written |-> <<>>]

\* newCounter at time t over a file holding content.  Without a count file
\* the counter is the zero counter, whose Run returns at once.  file0
\* remembers the content found; taken counts the receives from inc; wrote is
\* the time of the last write; written lists what the handler under way
\* wrote.
newCounter(enabled, content, t) ==
    LET parsed == Atoi(TrimSpace(content)) IN
    IF ~enabled THEN [CtrOff EXCEPT !.pc = "done"]
    ELSE IF content # <<>> /\ ~parsed.ok
    THEN [CtrOff EXCEPT !.pc = "failed", !.file = content, !.file0 = content]
    ELSE [CtrOff EXCEPT !.pc = "run", !.file = content, !.file0 = content,
                        !.count = IF content = <<>> THEN 0 ELSE parsed.val,
                        !.lastWrite = t]

\* counter.write at time t.
write(c, t) ==
    [c EXCEPT !.file = WriteAt0(@, Itoa(c.count)),
              !.lastWrite = t,
              !.wrote = t,
              !.written = Append(@, Itoa(c.count))]

\* counter.increment made to write on every increment.
incrementFlush(c, t) ==
    write([c EXCEPT !.count = @ + 1, !.taken = @ + 1], t)

\* counter.increment made to count every increment twice.
incrementTwice(c, t) ==
    LET c1 == [c EXCEPT !.count = @ + 2, !.taken = @ + 1] IN
    IF t - c1.lastWrite > Second THEN write(c1, t) ELSE c1

\* counter.increment at time t.
increment(c, t) ==
    LET c1 == [c EXCEPT !.count = @ + 1, !.taken = @ + 1] IN
    IF t - c1.lastWrite > Second THEN write(c1, t) ELSE c1

\* The drain loop of counter.Run: k queued increments are taken.
RECURSIVE Drain(_, _, _)
Drain(c, t, k) == IF k = 0 THEN c ELSE Drain(increment(c, t), t, k - 1)

----------------------------------------------------------------------------
(***************************************************************************)
(* Instance discovery (FindInstances).  A window is either no usable game  *)
(* window (wrong class, no pid, no game directory, no instance_num, an old *)
(* version, no options.txt: the loop skips it) or a game window with the   *)
(* id of its instance_num file and a reset key that parses or does not.    *)
(***************************************************************************)
\* The ids instance_num files hold, the windows of one discovery.
MinFoundId == -1
MaxFoundId == 2
MaxWindows == 3

NotGame == [kind |-> "other", Id |-> 0, key |-> "-"]

GameWindows ==
    [kind : {"game"}, Id : MinFoundId .. MaxFoundId, key : {"ok", "bad"}]

WindowValues == {NotGame} \cup GameWindows

\* No discovery was made.
FindOff == [pc |-> "off", windows |-> <<>>, ok |-> FALSE, instances |-> <<>>,
            err |-> "-"]

\* The loop over the windows from window k on: the InstanceInfo of every game
\* window is appended (Wid is the window); a reset key that does not parse
\* ends the discovery with an error.
RECURSIVE Collect(_, _, _)
Collect(windows, k, acc) ==
    IF k > Len(windows) THEN [err |-> "-", instances |-> acc]
    ELSE IF windows[k].kind # "game" THEN Collect(windows, k + 1, acc)
    ELSE IF windows[k].key = "bad"
    THEN [err |-> "unable to determine atum reset key", instances |-> <<>>]
    ELSE Collect(windows, k + 1,
                 Append(acc, [Id |-> windows[k].Id, Wid |-> k]))

\* The last element of s sinks to its place among the sorted ones before it.
RECURSIVE SinkById(_)
SinkById(s) ==
    LET n == Len(s) IN
    IF n >= 2 /\ s[n].Id < s[n - 1].Id
    THEN Append(SinkById(SubSeq(s, 1, n - 2) \o <<s[n]>>), s[n - 1])
    ELSE s

\* sort.Slice by Id, an insertion sort for fewer than twelve elements.
RECURSIVE SortById(_)
SortById(s) ==
    IF Len(s) <= 1 THEN s
    ELSE SinkById(Append(SortById(SubSeq(s, 1, Len(s) - 1)), s[Len(s)]))

\* CheckIds made to look at the first instance only.
CheckIdsFirst(s) ==
    IF s[1].Id # 0 THEN "no instance with id 0" ELSE "-"

\* The checks on the sorted instances; element i of the Go slice is s[i + 1].
CheckIds(s) ==
    IF s[1].Id # 0 THEN "no instance with id 0"
    ELSE IF \E i \in 1 .. Len(s) : s[i].Id # i - 1
    THEN "instances do not have sequential IDs"
    ELSE "-"

FindInstances(windows) ==
    LET got == Collect(windows, 1, <<>>) IN
    IF got.err # "-" THEN [ok |-> FALSE, instances |-> <<>>, err |-> got.err]
    ELSE IF got.instances = <<>>
    THEN [ok |-> FALSE, instances |-> <<>>, err |-> "no instances found"]
    ELSE LET sorted == SortById(got.instances)
             err == CheckIds(sorted) IN
         IF err # "-" THEN [ok |-> FALSE, instances |-> <<>>, err |-> err]
         ELSE [ok |-> TRUE, instances |-> sorted, err |-> "-"]

\* NewManager: no active instance; every instance paused in a world; the
\* Run loop started by ctl.Run.
MgrStart ==
    /\ conf \in [WallEnabled : BOOLEAN, UnpauseFocus : BOOLEAN,
                 UseF1 : BOOLEAN, CountResets : BOOLEAN]
    /\ now = GracePeriod
    /\ active = NoActive
    /\ instances = [i \in Ids |-> ZeroState]
    /\ mgrPc = "run"
    /\ watcherOpen = TRUE
    /\ errch = 0
    /\ cancelled = FALSE
    /\ resets = 0
    /\ incs = 0
    /\ evtch = 0
    /\ sending = NoActive
    /\ ctlPc = "select"
    /\ out = NoOutcome

\* ctl.Run over a count file that does not exist yet.  conf.UseF1 acts on the
\* keys of Play only and the count file on the counter only: the two are
\* varied together.
MgrInit ==
    /\ MgrStart
    /\ conf.UseF1 = conf.CountResets
    /\ ctr = newCounter(conf.CountResets, <<>>, now)

\* The clock advances.
Tick ==
    /\ now < GracePeriod + TimeSteps
    /\ now' = now + 1
    /\ out' = NoOutcome
    /\ UNCHANGED <<ctlPc, disc, im, wl, ctr, evtch, sending>>
    /\ UNCHANGED <<conf, active, instances, mgrPc, watcherOpen, errch,
                   cancelled, resets, incs, wk>>

\* PlayOps with the window unstretched only after the pause-escape sequence.
PlayOpsMoveLate(id) ==
    (IF conf.UnpauseFocus THEN <<KeyPress(id, "Esc")>> ELSE <<>>)
    \o (IF conf.WallEnabled
        THEN (IF conf.UnpauseFocus /\ conf.UseF1
              THEN <<KeyPress(id, "F1")>> ELSE <<>>)
             \o <<KeyPress(id, "Esc"), KeyPress(id, "Esc")>>
             \o <<MoveWindow(id, "UnstretchRes")>>
        ELSE <<>>)
    \o <<FocusWindow(id)>>

\* Manager.Play(id): the X operations in the order the code issues them.
PlayOps(id) ==
    (IF conf.UnpauseFocus THEN <<KeyPress(id, "Esc")>> ELSE <<>>)
    \o (IF conf.WallEnabled
        THEN <<MoveWindow(id, "UnstretchRes")>>
             \o (IF conf.UnpauseFocus /\ conf.UseF1
                 THEN <<KeyPress(id, "F1")>> ELSE <<>>)
             \o <<KeyPress(id, "Esc"), KeyPress(id, "Esc")>>
        ELSE <<>>)
    \o <<FocusWindow(id)>>

\* m.mu is held by Manager.Run from its Lock to its Unlock. Every handler is
\* one step, so between steps the mutex is held only while Run is blocked in
\* evtch <- Update, which it executes before m.mu.Unlock().
MuHeld == mgrPc = "sendEvt"

\* The X operations a handler issued between m.mu.Lock() and m.mu.Unlock().
\* Play and Reset lock on entry and unlock by defer, on return; Run locks
\* before it stores the state and unlocks after the send on evtch.
LockedOps(o) == IF o.call \in {"Play", "Reset", "Write"} THEN o.ops ELSE <<>>

\* The Updates a handler sent on evtch between m.mu.Lock() and m.mu.Unlock().
LockedSends(o) == IF o.call \in {"Write", "Deliver"} THEN o.updates ELSE <<>>

\* Manager.Play(id), called by the frontend from Controller.run, so before
\* run has returned. m.mu.Lock() waits while Run holds the mutex; the call
\* made may be one that waited.
Play(id) ==
    /\ ~cancelled
    /\ ~MuHeld
    /\ active' = id
    /\ ctlPc' = "select"
    /\ instances' = [instances EXCEPT ![id].Type = "Ingame"]
    /\ out' = Outcome("Play", id, "-", TRUE, PlayOps(id), <<>>, 0)
    /\ UNCHANGED <<disc, im, wl, ctr, evtch, sending>>
    /\ UNCHANGED <<conf, now, mgrPc, watcherOpen, errch, cancelled, resets,
                   incs, wk>>

\* CanReset with the Dirt test lost.
CanResetDirt(st) ==
    /\ ~(st.Type = "Preview" /\ st.Progress > MaxResetProgress)
    /\ ~(conf.WallEnabled /\ Since(st.LastPreview) < GracePeriod)

\* Manager.Reset(id): whether the reset is legal in state st.
CanReset(st) ==
    /\ st.Type # "Dirt"
    /\ ~(st.Type = "Preview" /\ st.Progress > MaxResetProgress)
    /\ ~(conf.WallEnabled /\ Since(st.LastPreview) < GracePeriod)

\* ActiveAfterReset clearing the active id whichever instance is reset.
ActiveAfterResetAny(id) == NoActive

\* Manager.Reset(id): the value of m.active after an accepted reset.
ActiveAfterReset(id) == IF active = id THEN NoActive ELSE active

\* ResetOps sending the world-reset key in every phase.
ResetOpsOneKey(id) ==
    (IF active = id THEN <<MoveWindow(id, "StretchRes")>> ELSE <<>>)
    \o <<KeyPress(id, "ResetKey")>>

\* Manager.Reset(id): the X operations of an accepted reset.
ResetOps(id) ==
    (IF active = id THEN <<MoveWindow(id, "StretchRes")>> ELSE <<>>)
    \o <<KeyPress(id, IF instances[id].Type = "Preview"
                      THEN "PreviewKey" ELSE "ResetKey")>>

\* ResetResult with the active instance released before the legality checks.
ResetResultEager(id) ==
    IF CanReset(instances[id])
    THEN [ok |-> TRUE, active |-> ActiveAfterReset(id), ops |-> ResetOps(id)]
    ELSE [ok |-> FALSE, active |-> ActiveAfterReset(id),
          ops |-> IF active = id THEN <<MoveWindow(id, "StretchRes")>>
                  ELSE <<>>]

\* Manager.Reset(id): the return value, the new m.active and the X
\* operations. A rejected reset returns before anything is touched.
ResetResult(id) ==
    IF CanReset(instances[id])
    THEN [ok |-> TRUE, active |-> ActiveAfterReset(id), ops |-> ResetOps(id)]
    ELSE [ok |-> FALSE, active |-> active, ops |-> <<>>]

\* counter.Increment: sends on inc unless the counter is a no-op counter
\* (conf.ResetCount == "", inc is nil).
Increment == IF conf.CountResets THEN incs + 1 ELSE incs

\* IncsAfter counting every call, accepted or not.
IncsAfterAny(ok) == Increment

\* Controller.ResetInstance: the values sent on counter.inc after
\* Manager.Reset returned ok.
IncsAfter(ok) == IF ok THEN Increment ELSE incs

\* Controller.run, case input := <-c.inputs, the frontend calling
\* Manager.Play or Manager.Reset of some instance while Run holds m.mu in its
\* send:
\* the Controller waits in m.mu.Lock() and takes nothing off its channels.
CtlWaitsForMu ==
    /\ ~cancelled
    /\ ctlPc = "select"
    /\ MuHeld
    /\ ctlPc' = "lock"
    /\ out' = Outcome("MuWait", NoActive, "-", FALSE, <<>>, <<>>, 0)
    /\ UNCHANGED <<disc, im, wl, ctr, evtch, sending>>
    /\ UNCHANGED <<conf, now, active, instances, mgrPc, watcherOpen, errch,
                   cancelled, resets, incs, wk>>

\* Controller.ResetInstance(id): Manager.Reset(id), then counter.Increment
\* if the reset was accepted.
ResetInstance(id) ==
    /\ resets < MaxResets
    /\ ~cancelled
    /\ ~MuHeld
    /\ ctlPc' = "select"
    /\ LET r == ResetResult(id)
       IN /\ active' = r.active
          /\ resets' = IF r.ok THEN resets + 1 ELSE resets
          /\ incs' = IncsAfter(r.ok)
          /\ out' = Outcome("Reset", id, "-", r.ok, r.ops, <<>>, 0)
    /\ UNCHANGED <<disc, im, wl, ctr, evtch, sending>>
    /\ UNCHANGED <<conf, now, instances, mgrPc, watcherOpen, errch, cancelled,
                   wk>>

\* What reader.Process() returns to Manager.Run: an error, updated = false,
\* or a state with updated = true.
ReaderResults ==
    [err : {TRUE}, updated : {FALSE}, state : {[Type |-> "Dirt", Progress |-> 0]}]
        \cup [err : {FALSE}, updated : {FALSE},
              state : {[Type |-> "Dirt", Progress |-> 0]}]
        \cup [err : {FALSE}, updated : {TRUE}, state : ReaderStates]

\* ApplyState with LastPreview taken from the clock on every preview update.
ApplyStateEvery(id, st) ==
    [Type |-> IF st.Type = StWorld
              THEN (IF active = id THEN "Ingame" ELSE "Idle")
              ELSE st.Type,
     Progress |-> st.Progress,
     LastPreview |-> IF st.Type = "Preview" THEN now
                     ELSE instances[id].LastPreview]

\* Manager.Run, case Write: the public state stored for reader state st.
\* stWorld becomes Ingame for the active instance and Idle for any other;
\* LastPreview is taken from the clock on entering the preview.
ApplyState(id, st) ==
    [Type |-> IF st.Type = StWorld
              THEN (IF active = id THEN "Ingame" ELSE "Idle")
              ELSE st.Type,
     Progress |-> st.Progress,
     LastPreview |-> IF st.Type = "Preview" /\ instances[id].Type # "Preview"
                     THEN now
                     ELSE instances[id].LastPreview]

\* Manager.Run, case Write: the keys sent for reader state st.
WriteOps(id, st) ==
    IF st.Type = StWorld /\ active # id THEN PauseMacro(id) ELSE <<>>

\* Manager.Run, case evt := <-m.watcher.Events with evt.Op = Write. The
\* state is stored and the keys are sent under m.mu; then the Update is sent
\* on evtch, still under m.mu: with evtch full, Run blocks in the send.
MgrRunWrite(id, res) ==
    /\ mgrPc = "run"
    /\ watcherOpen
    /\ IF res.err \/ ~res.updated
       THEN /\ out' = Outcome("Write", id, "-", FALSE, <<>>, <<>>, 0)
            /\ UNCHANGED <<instances, evtch, sending, mgrPc>>
       ELSE /\ instances' = [instances EXCEPT ![id] = ApplyState(id, res.state)]
            /\ IF evtch < EvtchCap
               THEN /\ evtch' = evtch + 1
                    /\ out' = Outcome("Write", id, res.state.Type, TRUE,
                                      WriteOps(id, res.state),
                                      <<instances'[id]>>, 0)
                    /\ UNCHANGED <<sending, mgrPc>>
               ELSE /\ mgrPc' = "sendEvt"
                    /\ sending' = id
                    /\ out' = Outcome("Write", id, res.state.Type, TRUE,
                                      WriteOps(id, res.state), <<>>, 0)
                    /\ UNCHANGED evtch
    /\ UNCHANGED <<ctlPc, disc, im, wl, ctr>>
    /\ UNCHANGED <<conf, now, active, watcherOpen, errch, cancelled,
                   resets, incs, wk>>

\* Manager.Run blocked in evtch <- Update: the send completes once the
\* Controller has taken an Update off evtch; then m.mu.Unlock().
MgrRunDeliver ==
    /\ mgrPc = "sendEvt"
    /\ evtch < EvtchCap
    /\ evtch' = evtch + 1
    /\ mgrPc' = "run"
    /\ sending' = NoActive
    /\ out' = Outcome("Deliver", sending, "-", TRUE, <<>>,
                      <<instances[sending]>>, 0)
    /\ UNCHANGED <<ctlPc, disc, im, wl, ctr>>
    /\ UNCHANGED <<conf, now, active, instances, watcherOpen, errch,
                   cancelled, resets, incs, wk>>

\* Controller.run, case evt := <-c.mgrEvents: the Update is handed to the
\* frontend.
CtlRecvEvent ==
    /\ ~cancelled
    /\ ctlPc = "select"
    /\ evtch > 0
    /\ evtch' = evtch - 1
    /\ out' = Outcome("CtlEvent", NoActive, "-", TRUE, <<>>, <<>>, 0)
    /\ UNCHANGED <<ctlPc, disc, im, wl, ctr, sending>>
    /\ UNCHANGED <<conf, now, active, instances, mgrPc, watcherOpen, errch,
                   cancelled, resets, incs, wk>>

\* Manager.Run, case evt := <-m.watcher.Events with any other evt.Op:
\* reader.ProcessEvent fails or not; a failure is reported and Run returns.
MgrRunOther(id, failed) ==
    /\ mgrPc = "run"
    /\ watcherOpen
    /\ IF failed
       THEN IF errch < ErrchCap
            THEN /\ errch' = errch + 1
                 /\ mgrPc' = "done"
                 /\ out' = Outcome("Other", id, "-", FALSE, <<>>, <<>>, 1)
            ELSE /\ mgrPc' = "sendThenReturn"
                 /\ out' = Outcome("Other", id, "-", FALSE, <<>>, <<>>, 0)
                 /\ UNCHANGED errch
       ELSE /\ out' = Outcome("Other", id, "-", TRUE, <<>>, <<>>, 0)
            /\ UNCHANGED <<mgrPc, errch>>
    /\ UNCHANGED <<ctlPc, disc, im, wl, ctr, evtch, sending>>
    /\ UNCHANGED <<conf, now, active, instances, watcherOpen, cancelled,
                   resets, incs, wk>>

\* The loop's position were a received watcher error fatal.
MgrWatcherErrorFatal == "done"

\* Manager.Run, case err, ok := <-m.watcher.Errors with ok: the error is
\* logged and the loop goes on.
MgrWatcherErrorPc == "run"

MgrRunWatcherError ==
    /\ mgrPc = "run"
    /\ watcherOpen
    /\ mgrPc' = MgrWatcherErrorPc
    /\ out' = Outcome("WatcherError", NoActive, "-", TRUE, <<>>, <<>>, 0)
    /\ UNCHANGED <<ctlPc, disc, im, wl, ctr, evtch, sending>>
    /\ UNCHANGED <<conf, now, active, instances, watcherOpen, errch,
                   cancelled, resets, incs, wk>>

\* The fsnotify watcher dies: its Events and Errors channels are closed.
WatcherClose ==
    /\ watcherOpen
    /\ mgrPc # "off"
    /\ watcherOpen' = FALSE
    /\ out' = NoOutcome
    /\ UNCHANGED <<ctlPc, disc, im, wl, ctr, evtch, sending>>
    /\ UNCHANGED <<conf, now, active, instances, mgrPc, errch, cancelled,
                   resets, incs, wk>>

\* Manager.Run, case err, ok := <-m.watcher.Errors with !ok: the error is
\* sent on errch and logged; the loop goes on. A full errch blocks the send.
MgrRunErrorsClosed ==
    /\ mgrPc = "run"
    /\ ~watcherOpen
    /\ IF errch < ErrchCap
       THEN /\ errch' = errch + 1
            /\ out' = Outcome("ErrorsClosed", NoActive, "-", FALSE, <<>>, <<>>, 1)
            /\ UNCHANGED mgrPc
       ELSE /\ mgrPc' = "sendThenLoop"
            /\ out' = Outcome("ErrorsClosed", NoActive, "-", FALSE, <<>>, <<>>, 0)
            /\ UNCHANGED errch
    /\ UNCHANGED <<ctlPc, disc, im, wl, ctr, evtch, sending>>
    /\ UNCHANGED <<conf, now, active, instances, watcherOpen, cancelled,
                   resets, incs, wk>>

\* Manager.Run, case evt, ok := <-m.watcher.Events with !ok: the error is
\* sent on errch and Run returns.
MgrRunEventsClosed ==
    /\ mgrPc = "run"
    /\ ~watcherOpen
    /\ IF errch < ErrchCap
       THEN /\ errch' = errch + 1
            /\ mgrPc' = "done"
            /\ out' = Outcome("EventsClosed", NoActive, "-", FALSE, <<>>, <<>>, 1)
       ELSE /\ mgrPc' = "sendThenReturn"
            /\ out' = Outcome("EventsClosed", NoActive, "-", FALSE, <<>>, <<>>, 0)
            /\ UNCHANGED errch
    /\ UNCHANGED <<ctlPc, disc, im, wl, ctr, evtch, sending>>
    /\ UNCHANGED <<conf, now, active, instances, watcherOpen, cancelled,
                   resets, incs, wk>>

\* Manager.Run blocked in errch <- err: the send completes once errch has
\* room.
MgrRunSend ==
    /\ mgrPc \in {"sendThenLoop", "sendThenReturn"}
    /\ errch < ErrchCap
    /\ errch' = errch + 1
    /\ mgrPc' = IF mgrPc = "sendThenLoop" THEN "run" ELSE "done"
    /\ out' = Outcome("Send", NoActive, "-", FALSE, <<>>, <<>>, 1)
    /\ UNCHANGED <<ctlPc, disc, im, wl, ctr, evtch, sending>>
    /\ UNCHANGED <<conf, now, active, instances, watcherOpen, cancelled,
                   resets, incs, wk>>

\* Manager.Run, case <-ctx.Done(): Run returns.
MgrRunCancelled ==
    /\ mgrPc = "run"
    /\ cancelled
    /\ mgrPc' = "done"
    /\ out' = Outcome("Cancelled", NoActive, "-", TRUE, <<>>, <<>>, 0)
    /\ UNCHANGED <<ctlPc, disc, im, wl, ctr, evtch, sending>>
    /\ UNCHANGED <<conf, now, active, instances, watcherOpen, errch,
                   cancelled, resets, incs, wk>>

\* Controller.run, case err := <-c.mgrErrors: "All manager errors are
\* fatal": run returns and ctl.Run's deferred cancel() fires.
CtlRecvMgrError ==
    /\ ctlPc = "select"
    /\ ~cancelled
    /\ errch > 0
    /\ errch' = errch - 1
    /\ cancelled' = TRUE
    /\ out' = Outcome("CtlError", NoActive, "-", FALSE, <<>>, <<>>, 0)
    /\ UNCHANGED <<ctlPc, disc, im, wl, ctr, evtch, sending>>
    /\ UNCHANGED <<conf, now, active, instances, mgrPc, watcherOpen, resets,
                   incs, wk>>

\* Controller.run, case sig := <-c.signals with SIGINT or SIGTERM.
CtlSignal ==
    /\ ~cancelled
    /\ ctlPc = "select"
    /\ mgrPc # "off"
    /\ cancelled' = TRUE
    /\ out' = Outcome("CtlSignal", NoActive, "-", TRUE, <<>>, <<>>, 0)
    /\ UNCHANGED <<ctlPc, disc, im, wl, ctr, evtch, sending>>
    /\ UNCHANGED <<conf, now, active, instances, mgrPc, watcherOpen, errch,
                   resets, incs, wk>>

\* counter.Run, case <-c.inc: c.increment().
CtrRecv ==
    /\ ctr.pc = "run"
    /\ incs > ctr.taken
    /\ LET c == increment(ctr, now) IN
        /\ ctr' = [c EXCEPT !.written = <<>>]
        /\ out' = Outcome("CtrRecv", NoActive, "-", TRUE, <<>>, c.written, 0)
    /\ UNCHANGED <<ctlPc, disc, im, wl, evtch, sending>>
    /\ UNCHANGED <<conf, now, active, instances, mgrPc, watcherOpen, errch,
                   cancelled, resets, incs, wk>>

\* counter.Run, case <-ctx.Done(): the increments still queued on inc are
\* drained and counted, the deferred write stores the count and Run returns.
CtrCancelled ==
    /\ ctr.pc = "run"
    /\ cancelled
    /\ LET c == write(Drain(ctr, now, incs - ctr.taken), now) IN
        /\ ctr' = [c EXCEPT !.pc = "done", !.written = <<>>]
        /\ out' = Outcome("CtrCancelled", NoActive, "-", TRUE, <<>>,
                          c.written, 0)
    /\ UNCHANGED <<ctlPc, disc, im, wl, evtch, sending>>
    /\ UNCHANGED <<conf, now, active, instances, mgrPc, watcherOpen, errch,
                   cancelled, resets, incs, wk>>

----------------------------------------------------------------------------
(***************************************************************************)
(* manager.Worker: one instance's log reader and its run loop.  A log line *)
(* is the set of the markers it contains.                                  *)
(***************************************************************************)
Markers == {"CHAT", "RESET", "SAVING", "PREVIEW", "LEAVING"}

Lines == {l \in SUBSET Markers : Cardinality(l) <= 2}

\* The log batches of at most n lines.
RECURSIVE BatchesUpTo(_)
BatchesUpTo(n) ==
    IF n = 0 THEN {<<>>}
    ELSE LET shorter == BatchesUpTo(n - 1)
         IN shorter \cup {Append(b, l) : b \in {x \in shorter : Len(x) = n - 1},
                                          l \in Lines}

Batches == BatchesUpTo(MaxLines)

\* Worker.readState, the body of its loop for one line: a CHAT line is
\* skipped; otherwise each marker found sets the state, in the order of the
\* four tests.
ReadLine(acc, line) ==
    IF "CHAT" \in line THEN acc
    ELSE LET a == IF "RESET" \in line
                  THEN [state |-> "Generating", updated |-> TRUE] ELSE acc
             b == IF "SAVING" \in line
                  THEN [state |-> "Ready", updated |-> TRUE] ELSE a
             c == IF "PREVIEW" \in line
                  THEN [state |-> "Preview", updated |-> TRUE] ELSE b
         IN IF "LEAVING" \in line
            THEN [state |-> "Generating", updated |-> TRUE] ELSE c

\* Worker.readState over the lines of a batch.
RECURSIVE ReadFrom(_, _)
ReadFrom(acc, batch) ==
    IF batch = <<>> THEN acc
    ELSE ReadFrom(ReadLine(acc, Head(batch)), Tail(batch))

readState(batch) == ReadFrom([state |-> "Unknown", updated |-> FALSE], batch)

\* Worker.Start has run: the watcher is open, the state is what readState
\* found in the log so far, the run goroutine is started.
WorkerInit ==
    wk \in [State : {"Unknown", "Generating", "Ready", "Preview"},
            lastTime : {0}, pc : {"run"}, watcher : {"open"}, errs : {0},
            boots : {0}, active : {TRUE}, routines : {1}, starts : {1}]

\* Applies without the test for an unchanged state.
AppliesUnchanged(r) ==
    /\ r.updated
    /\ ~(wk.State = "Ingame" /\ r.state = "Ready")

\* Worker.updateState: whether the batch's result is applied at all.
Applies(r) ==
    /\ r.updated
    /\ wk.State # r.state
    /\ ~(wk.State = "Ingame" /\ r.state = "Ready")

\* Worker.updateState after setState(state): focus is what GetActiveWindow
\* gives ("err", "this" window, or an "other" one).
AfterSet(r, focus) ==
    IF focus = "err" THEN [State |-> r.state, ops |-> <<>>, sets |-> <<r.state>>]
    ELSE IF focus = "this" /\ r.state = "Ready"
    THEN [State |-> "Ingame", ops |-> <<>>, sets |-> <<r.state, "Ingame">>]
    ELSE IF focus # "this" /\ r.state \in {"Preview", "Ready"}
    THEN [State |-> r.state, ops |-> PauseMacro(0), sets |-> <<r.state>>]
    ELSE [State |-> r.state, ops |-> <<>>, sets |-> <<r.state>>]

\* Worker.run, case evt := <-w.watcher.Events with evt.Op = Write:
\* Worker.updateState.
WkWrite(batch, focus) ==
    /\ wk.pc = "run"
    /\ wk.watcher = "open"
    /\ LET r == readState(batch)
       IN IF Applies(r)
          THEN LET a == AfterSet(r, focus)
               IN /\ wk' = [wk EXCEPT !.State = a.State]
                  /\ out' = Outcome("updateState", 0, r.state, TRUE, a.ops,
                                    a.sets, 0)
          ELSE /\ out' = Outcome("updateState", 0,
                                 IF r.updated THEN r.state ELSE "-", FALSE,
                                 <<>>, <<>>, 0)
               /\ UNCHANGED wk
    /\ UNCHANGED <<ctlPc, disc, im, wl, ctr, evtch, sending>>
    /\ UNCHANGED <<conf, now, active, instances, mgrPc, watcherOpen, errch,
                   cancelled, resets, incs>>

\* Worker.Focus(time): FocusWindow fails or not; a Ready instance is
\* unpaused and becomes Ingame.
WkFocus(time, failed) ==
    /\ wk.pc # "off"
    /\ IF failed
       THEN /\ wk' = [wk EXCEPT !.lastTime = time]
            /\ out' = Outcome("Focus", 0, "-", FALSE, <<>>, <<>>, 0)
       ELSE IF wk.State = "Ready"
       THEN /\ wk' = [wk EXCEPT !.lastTime = time, !.State = "Ingame"]
            /\ out' = Outcome("Focus", 0, "-", TRUE,
                              <<FocusWindow(0), KeyPress(0, "Esc")>>,
                              <<"Ingame">>, 0)
       ELSE /\ wk' = [wk EXCEPT !.lastTime = time]
            /\ out' = Outcome("Focus", 0, "-", TRUE, <<FocusWindow(0)>>, <<>>, 0)
    /\ UNCHANGED <<ctlPc, disc, im, wl, ctr, evtch, sending>>
    /\ UNCHANGED <<conf, now, active, instances, mgrPc, watcherOpen, errch,
                   cancelled, resets, incs>>

\* Worker.Fullscreen(timestamp): the timestamp is stored and F11 pressed.
WkFullscreen(time) ==
    /\ wk.pc # "off"
    /\ wk' = [wk EXCEPT !.lastTime = time]
    /\ out' = Outcome("Fullscreen", 0, "-", TRUE, <<KeyPress(0, "F11")>>,
                      <<>>, 0)
    /\ UNCHANGED <<ctlPc, disc, im, wl, ctr, evtch, sending>>
    /\ UNCHANGED <<conf, now, active, instances, mgrPc, watcherOpen, errch,
                   cancelled, resets, incs>>

\* Worker.Reset(time): ErrCannotReset while the instance generates;
\* otherwise mc.Instance.Reset sends the reset key and the timestamp it
\* returns (ret, some timestamp not before time) is stored.
WkReset(time, ret) ==
    /\ wk.pc # "off"
    /\ IF wk.State = "Generating"
       THEN /\ out' = Outcome("WkReset", 0, "-", FALSE, <<>>, <<>>, 0)
            /\ UNCHANGED wk
       ELSE /\ wk' = [wk EXCEPT !.lastTime = ret]
            /\ out' = Outcome("WkReset", 0, "-", TRUE,
                              <<KeyPress(0, "ResetKey")>>, <<>>, 0)
    /\ UNCHANGED <<ctlPc, disc, im, wl, ctr, evtch, sending>>
    /\ UNCHANGED <<conf, now, active, instances, mgrPc, watcherOpen, errch,
                   cancelled, resets, incs>>

\* Worker.run, case err, ok := <-w.watcher.Errors with ok: the error is
\* logged.
WkWatcherErrorPc == "run"

WkWatcherError ==
    /\ wk.pc = "run"
    /\ wk.watcher = "open"
    /\ wk' = [wk EXCEPT !.pc = WkWatcherErrorPc]
    /\ out' = Outcome("WkWatcherError", 0, "-", TRUE, <<>>, <<>>, 0)
    /\ UNCHANGED <<ctlPc, disc, im, wl, ctr, evtch, sending>>
    /\ UNCHANGED <<conf, now, active, instances, mgrPc, watcherOpen, errch,
                   cancelled, resets, incs>>

\* The Worker's fsnotify watcher dies: its channels are closed.
WkWatcherClose ==
    /\ wk.pc = "run"
    /\ wk.watcher = "open"
    /\ wk' = [wk EXCEPT !.watcher = "closed"]
    /\ out' = NoOutcome
    /\ UNCHANGED <<ctlPc, disc, im, wl, ctr, evtch, sending>>
    /\ UNCHANGED <<conf, now, active, instances, mgrPc, watcherOpen, errch,
                   cancelled, resets, incs>>

\* Worker.run, the Errors or the Events channel found closed: a WorkerError
\* is sent, the active lock released, the goroutine returns.
WkChannelClosed(which) ==
    /\ wk.pc = "run"
    /\ wk.watcher = "closed"
    /\ wk' = [wk EXCEPT !.pc = "done", !.errs = @ + 1, !.active = FALSE,
                         !.routines = @ - 1]
    /\ out' = Outcome(which, 0, "-", FALSE, <<>>, <<>>, 1)
    /\ UNCHANGED <<ctlPc, disc, im, wl, ctr, evtch, sending>>
    /\ UNCHANGED <<conf, now, active, instances, mgrPc, watcherOpen, errch,
                   cancelled, resets, incs>>

\* Worker.run, case evt.Op = Remove or Rename: a WorkerError is sent, the
\* watcher closed, the goroutine returns.
WkLogGone ==
    /\ wk.pc = "run"
    /\ wk.watcher = "open"
    /\ wk' = [wk EXCEPT !.pc = "done", !.errs = @ + 1, !.watcher = "closed",
                         !.active = FALSE, !.routines = @ - 1]
    /\ out' = Outcome("WkLogGone", 0, "-", FALSE, <<>>, <<>>, 1)
    /\ UNCHANGED <<ctlPc, disc, im, wl, ctr, evtch, sending>>
    /\ UNCHANGED <<conf, now, active, instances, mgrPc, watcherOpen, errch,
                   cancelled, resets, incs>>

\* Worker.Stop and Worker.run, case <-w.stop: the goroutine answers on stop,
\* closes the watcher and returns.
WkStop ==
    /\ wk.pc = "run"
    /\ wk' = [wk EXCEPT !.pc = "done", !.watcher = "closed",
                         !.active = FALSE, !.routines = @ - 1]
    /\ out' = Outcome("WkStop", 0, "-", TRUE, <<>>, <<>>, 0)
    /\ UNCHANGED <<ctlPc, disc, im, wl, ctr, evtch, sending>>
    /\ UNCHANGED <<conf, now, active, instances, mgrPc, watcherOpen, errch,
                   cancelled, resets, incs>>

\* The Start calls made on one Worker.
MaxStarts == 3

\* Worker.Start: without the active lock it fails at once. With it, a
\* failure to open the log, to create the watcher or to watch the log
\* returns the error; else the state is read from the log and the run
\* goroutine is started.
WkStart(failed, state) ==
    /\ wk.starts < MaxStarts
    /\ IF wk.active
       THEN /\ wk' = [wk EXCEPT !.starts = @ + 1]
            /\ out' = Outcome("Start", 0, "worker already running", FALSE,
                              <<>>, <<>>, 0)
       ELSE IF failed
       THEN /\ wk' = [wk EXCEPT !.starts = @ + 1, !.active = TRUE]
            /\ out' = Outcome("Start", 0, "failed", FALSE, <<>>, <<>>, 0)
       ELSE /\ wk' = [wk EXCEPT !.starts = @ + 1, !.active = TRUE,
                                !.pc = "run", !.watcher = "open",
                                !.State = state, !.routines = @ + 1]
            /\ out' = Outcome("Start", 0, "-", TRUE, <<>>, <<state>>, 0)
    /\ UNCHANGED <<ctlPc, disc, im, wl, ctr, evtch, sending>>
    /\ UNCHANGED <<conf, now, active, instances, mgrPc, watcherOpen, errch,
                   cancelled, resets, incs>>

\* Worker.Stop up to its return: the run goroutine has taken the value off
\* stop and has sent its answer, which Stop has received.
WkStopReturns ==
    /\ wk.pc = "run"
    /\ wk' = [wk EXCEPT !.pc = "stopping"]
    /\ out' = Outcome("Stop", 0, "-", TRUE, <<>>, <<>>, 0)
    /\ UNCHANGED <<ctlPc, disc, im, wl, ctr, evtch, sending>>
    /\ UNCHANGED <<conf, now, active, instances, mgrPc, watcherOpen, errch,
                   cancelled, resets, incs>>

\* Worker.run, case <-w.stop, after its answer: the watcher is closed, the
\* active lock released, the goroutine returns.
WkStopExit ==
    /\ wk.pc = "stopping"
    /\ wk' = [wk EXCEPT !.pc = "done", !.watcher = "closed",
                         !.active = FALSE, !.routines = @ - 1]
    /\ out' = Outcome("StopExit", 0, "-", TRUE, <<>>, <<>>, 0)
    /\ UNCHANGED <<ctlPc, disc, im, wl, ctr, evtch, sending>>
    /\ UNCHANGED <<conf, now, active, instances, mgrPc, watcherOpen, errch,
                   cancelled, resets, incs>>

\* CmdReset, case err := <-mgrErrors: the error is logged, the manager waited
\* for, and after a second the instances are looked up again and the manager
\* is started again on them: Worker.Start reads the state from the log and
\* starts the run goroutine. If the instances are not found (or the start
\* fails), CmdReset returns 1.
CmdResetReboot(found, state) ==
    /\ wk.pc = "done"
    /\ wk.errs > 0
    /\ wk.boots < MaxBoots
    /\ IF found
       THEN /\ wk' = [wk EXCEPT !.pc = "run", !.watcher = "open",
                                !.errs = @ - 1, !.boots = @ + 1,
                                !.active = TRUE, !.routines = @ + 1,
                                !.starts = @ + 1,
                                !.State = state]
            /\ out' = Outcome("CmdResetReboot", 0, "-", TRUE, <<>>,
                              <<state>>, 0)
       ELSE /\ wk' = [wk EXCEPT !.pc = "exit", !.errs = @ - 1]
            /\ out' = Outcome("CmdResetReboot", 0, "-", FALSE, <<>>, <<>>, 0)
    /\ UNCHANGED <<ctlPc, disc, im, wl, ctr, evtch, sending>>
    /\ UNCHANGED <<conf, now, active, instances, mgrPc, watcherOpen, errch,
                   cancelled, resets, incs>>

----------------------------------------------------------------------------
(***************************************************************************)
(* The wall (ResetWall and its wall* functions, src/internal/mc/mc.go).    *)
(* The functions take the wallState w and give the wallState they leave;   *)
(* w.ops collects the operations the handler issues, in order: X           *)
(* operations on instance windows, signals to instance processes, OBS      *)
(* requests, hooks.                                                        *)
(***************************************************************************)
Signal(id, sig) == [op |-> sig, id |-> id, arg |-> "-"]
Click(id) == [op |-> "Click", id |-> id, arg |-> "-"]
SetAffinity(id, class) == [op |-> "SetAffinity", id |-> id, arg |-> class]
SetVisible(id, state) ==
    [op |-> "SetVisible", id |-> id, arg |-> IF state THEN "on" ELSE "off"]
SetScene(id) == [op |-> "SetScene", id |-> id, arg |-> "-"]
Hook(name) == [op |-> "Hook", id |-> NoActive, arg |-> name]
GrabKeys == [op |-> "GrabKeys", id |-> NoActive, arg |-> "-"]
UngrabKeys == [op |-> "UngrabKeys", id |-> NoActive, arg |-> "-"]

\* The OBS projector and the "Wall" scene are no instance: id NoActive.
FocusProjector == FocusWindow(NoActive)

Emit(w, op) == [w EXCEPT !.ops = Append(@, op)]

RECURSIVE EmitAll(_, _)
EmitAll(w, ops) ==
    IF ops = <<>> THEN w ELSE EmitAll(Emit(w, Head(ops)), Tail(ops))

wallUpdateLastTime(w, id, timestamp) ==
    IF w.lastTime[id] < timestamp
    THEN [w EXCEPT !.lastTime[id] = timestamp] ELSE w

wallSetLock(w, id, state) ==
    IF w.locks[id] = state THEN w
    ELSE Emit([w EXCEPT !.locks[id] = state], SetVisible(id, state))

\* syscall.Kill(pid, SIGSTOP): the process is suspended.
wallFreeze(w, id) ==
    Emit([w EXCEPT !.stopped[id] = TRUE], Signal(id, "SIGSTOP"))

\* syscall.Kill(pid, SIGCONT): the process runs.
wallUnfreeze(w, id) ==
    Emit([w EXCEPT !.stopped[id] = FALSE], Signal(id, "SIGCONT"))

\* unix.SchedSetaffinity(pid, &affinity), after the affinityUpdate for the
\* display.
wallSetAffinity(w, id, class) == Emit(w, SetAffinity(id, class))

wallGrabKeys(w) == Emit([w EXCEPT !.grabbed = TRUE], GrabKeys)

wallUngrabKeys(w) == Emit([w EXCEPT !.grabbed = FALSE], UngrabKeys)

wallGotoWall(w) ==
    wallGrabKeys(Emit(Emit([w EXCEPT !.onWall = TRUE], SetScene(NoActive)),
                      FocusProjector))

wallPlay(w, id, timestamp) ==
    IF w.states[id] # "Idle" THEN w
    ELSE LET w1 == wallUnfreeze(w, id)
             w2 == IF w.conf.Affinity
                   THEN wallSetAffinity(w1, id, "active") ELSE w1
             w3 == Emit([w2 EXCEPT !.states[id] = "Ingame"], SetScene(id))
             w4 == Emit(wallUngrabKeys(w3), FocusWindow(id))
             w5 == wallUpdateLastTime(w4, id, timestamp)
             w6 == IF w.conf.UnpauseFocus
                   THEN Emit(w5, KeyPress(id, "Esc")) ELSE w5
             w7 == IF w.conf.ClickFocus THEN Emit(w6, Click(id)) ELSE w6
             w8 == IF w.conf.StretchWindows
                   THEN Emit(w7, MoveWindow(id, "UnstretchRes")) ELSE w7
             w9 == wallSetLock(w8, id, FALSE)
         IN [w9 EXCEPT !.onWall = FALSE, !.current = id]

wallGetResettingCount(w) ==
    Cardinality({i \in Ids : w.states[i] \in {"Generating", "Preview"}})

\* go func() { time.Sleep(500ms); w.forceFreeze <- ... }(): a goroutine that
\* will send on forceFreeze. by is the instance whose reset started it; src
\* tells what the goroutine sends: the id it captured ("id") or w.current as
\* it is when the goroutine wakes ("current").
StartForceFreeze(w, src, by) ==
    [w EXCEPT !.timers =
                  @ (+) SetToBag({[kind |-> "force", src |-> src, id |-> by]})]

\* go func() { time.Sleep(FreezeDelay); wall.toFreeze <- update.Id }()
StartIdleFreeze(w, id) ==
    [w EXCEPT !.timers =
                  @ (+) SetToBag({[kind |-> "idle", src |-> "id", id |-> id]})]

\* wallResetInstance, from the reset key on: count is what
\* wallGetResettingCount returns to this call.
ResetAccepted(w, id, timestamp, count) ==
    LET w1 == wallUnfreeze(wallUpdateLastTime(w, id, timestamp), id)
        w2 == Emit(w1, KeyPress(id, "ResetKey"))
        w3 == IF w.conf.ConcResets # 0 /\ count > w.conf.ConcResets
              THEN StartForceFreeze(w2, "id", id) ELSE w2
    IN Emit(w3, Hook("WallReset"))

\* wallResetInstance without the test of the frozen flag.
wallResetInstanceFrozen(w, id, timestamp) ==
    IF w.locks[id] \/ w.states[id] = "Generating" THEN w
    ELSE LET w1 == [w EXCEPT !.states[id] = "Generating"]
         IN ResetAccepted(w1, id, timestamp, wallGetResettingCount(w1))

wallResetInstance(w, id, timestamp) ==
    IF w.locks[id] \/ w.frozen[id] \/ w.states[id] = "Generating" THEN w
    ELSE LET w1 == [w EXCEPT !.states[id] = "Generating"]
         IN ResetAccepted(w1, id, timestamp, wallGetResettingCount(w1))

\* wallResetOthers, its loop from instance i on.
RECURSIVE ResetOthersFrom(_, _, _, _)
ResetOthersFrom(w, id, i, timestamp) ==
    IF i = NumInstances THEN w
    ELSE ResetOthersFrom(IF i # id THEN wallResetInstance(w, i, timestamp)
                         ELSE w, id, i + 1, timestamp)

\* wallResetOthers without the test for an idle instance.
wallResetOthersAlways(w, id, timestamp) ==
    ResetOthersFrom(wallPlay(w, id, timestamp), id, 0, timestamp)

wallResetOthers(w, id, timestamp) ==
    IF w.states[id] # "Idle" THEN w
    ELSE ResetOthersFrom(wallPlay(w, id, timestamp), id, 0, timestamp)

\* wallLock raising the affinity of whatever instance it locks.
wallLockHigh(w, id) ==
    LET w1 == wallSetLock(w, id, ~w.locks[id])
    IN IF w1.locks[id]
       THEN wallSetAffinity(Emit(w1, Hook("Lock")), id, "high")
       ELSE Emit(w1, Hook("Unlock"))

wallLock(w, id) ==
    LET w1 == wallSetLock(w, id, ~w.locks[id])
    IN IF w1.locks[id]
       THEN LET w2 == Emit(w1, Hook("Lock"))
            IN IF w2.states[id] = "Preview"
               THEN wallSetAffinity(w2, id, "high") ELSE w2
       ELSE Emit(w1, Hook("Unlock"))

WallMods == {"WallPlay", "WallReset", "WallResetOthers", "WallLock"}

wallHandleEvent(w, id, state, timestamp) ==
    CASE state = "WallPlay" -> wallPlay(w, id, timestamp)
      [] state = "WallReset" -> wallResetInstance(w, id, timestamp)
      [] state = "WallResetOthers" -> wallResetOthers(w, id, timestamp)
      [] state = "WallLock" -> wallLock(w, id)

\* wallHandleResetKey on the wall: the instances a goroutine is started for,
\* and those among them whose wallResetInstance does reset.
\* ResetAllStarted without the test of the lock.
ResetAllStartedLocked(w) == {i \in Ids : w.states[i] # "Generating"}

ResetAllStarted(w) ==
    {i \in Ids : ~w.locks[i] /\ w.states[i] # "Generating"}

ResetAllResetting(w) == {i \in ResetAllStarted(w) : ~w.frozen[i]}

\* The orders in which the goroutines of one reset-all can write their
\* w.states[id].
WriteOrders(R) ==
    {p \in [1 .. Cardinality(R) -> R] :
        \A a, b \in 1 .. Cardinality(R) : a # b => p[a] # p[b]}

\* The goroutines run unsynchronized: the goroutine of p[k] counts after its
\* own write, so it sees the writes before its own in the order p, and it may
\* see any of the later ones. seen[i] is the set of writes i's count sees.
SeenBy(R, p) ==
    {seen \in [R -> SUBSET R] :
        \A k \in 1 .. Len(p) : \A j \in 1 .. k : p[j] \in seen[p[k]]}

RECURSIVE ResetAllFrom(_, _, _, _, _)
ResetAllFrom(w, old, p, seen, timestamp) ==
    IF p = <<>> THEN w
    ELSE LET i == Head(p)
             count == Cardinality(
                 {j \in Ids : old.states[j] \in {"Generating", "Preview"}}
                     \cup seen[i])
             w1 == [w EXCEPT !.states[i] = "Generating"]
         IN ResetAllFrom(ResetAccepted(w1, i, timestamp, count), old,
                         Tail(p), seen, timestamp)

\* ResetCurrent playing the first locked instance whatever its phase.
ResetCurrentAnyLocked(w, timestamp) ==
    LET cur == w.current
        w1 == Emit(wallUpdateLastTime(w, cur, timestamp),
                   KeyPress(cur, "ResetKey"))
        w2 == [w1 EXCEPT !.states[cur] = "Generating"]
        w3 == IF w.conf.ConcResets # 0
                  /\ wallGetResettingCount(w2) > w.conf.ConcResets
              THEN StartForceFreeze(w2, "current", cur) ELSE w2
        w4 == IF w.conf.StretchWindows
              THEN Emit(w3, MoveWindow(cur, "StretchRes")) ELSE w3
        w5 == Emit(w4, Hook("Reset"))
        locked == {i \in Ids : w5.locks[i]}
    IN IF w.conf.GoToLocked /\ locked # {}
       THEN wallPlay(w5, CHOOSE i \in locked : \A j \in locked : i <= j,
                     timestamp)
       ELSE wallGotoWall(w5)

\* wallHandleResetKey off the wall: the instance being played is reset, then
\* the wall is shown, or with GoToLocked the first locked idle instance is
\* played.
ResetCurrent(w, timestamp) ==
    LET cur == w.current
        w1 == Emit(wallUpdateLastTime(w, cur, timestamp),
                   KeyPress(cur, "ResetKey"))
        w2 == [w1 EXCEPT !.states[cur] = "Generating"]
        w3 == IF w.conf.ConcResets # 0
                  /\ wallGetResettingCount(w2) > w.conf.ConcResets
              THEN StartForceFreeze(w2, "current", cur) ELSE w2
        w4 == IF w.conf.StretchWindows
              THEN Emit(w3, MoveWindow(cur, "StretchRes")) ELSE w3
        w5 == Emit(w4, Hook("Reset"))
        lockedIdle == {i \in Ids : w5.locks[i] /\ w5.states[i] = "Idle"}
    IN IF w.conf.GoToLocked /\ lockedIdle # {}
       THEN wallPlay(w5, CHOOSE i \in lockedIdle :
                             \A j \in lockedIdle : i <= j, timestamp)
       ELSE wallGotoWall(w5)

wallHandleResetKey(w, timestamp, p, seen) ==
    IF w.onWall THEN ResetAllFrom(w, w, p, seen, timestamp)
    ELSE ResetCurrent(w, timestamp)

\* The profiles ResetWall is run with: every combination of the reset cap
\* and the idle freeze, each with the other options (go-to-locked, affinity,
\* unpause, click, stretch) all off and all on.
WallConfs ==
    {c \in [ConcResets : 0 .. MaxConcResets, Freeze : BOOLEAN,
            GoToLocked : BOOLEAN, Affinity : BOOLEAN, UnpauseFocus : BOOLEAN,
            ClickFocus : BOOLEAN, StretchWindows : BOOLEAN] :
        /\ c.GoToLocked = c.Affinity
        /\ c.UnpauseFocus = c.Affinity
        /\ c.ClickFocus = c.Affinity
        /\ c.StretchWindows = c.Affinity}

\* ResetWall up to its main loop: every instance in the zero InstanceState
\* (idle) and running, nothing locked or frozen, the wall shown with its
\* keys grabbed and the projector focused.
WallInit ==
    wl \in [pc : {"run"}, conf : WallConfs,
            states : {[i \in Ids |-> "Idle"]},
            lastTime : {[i \in Ids |-> 0]},
            locks : {[i \in Ids |-> FALSE]},
            frozen : {[i \in Ids |-> FALSE]},
            stopped : {[i \in Ids |-> FALSE]},
            current : {0}, onWall : {TRUE}, grabbed : {TRUE},
            forceFreeze : {<<>>}, toFreeze : {<<>>}, toUnfreeze : {<<>>},
            timers : {EmptyBag}, ops : {<<>>}, handled : {0},
            lastMouseId : {-1}]

\* The goroutines asleep before a send and the ids queued on the wall's
\* channels.
Pending(w) ==
    BagCardinality(w.timers) + Len(w.forceFreeze) + Len(w.toFreeze)
        + Len(w.toUnfreeze)

\* One iteration of ResetWall's loop (or one step of a goroutine it
\* started) that leaves the wallState w. wl.handled counts them.
WallDo(call, id, ok, w, sent) ==
    /\ wl.handled < MaxWallEvents
    /\ Pending(w) <= MaxPending
    /\ wl' = [w EXCEPT !.ops = <<>>, !.handled = @ + 1]
    /\ out' = Outcome(call, id, "-", ok, w.ops, sent, 0)
    /\ UNCHANGED <<ctlPc, disc, im, ctr, evtch, sending>>
    /\ UNCHANGED <<conf, now, active, instances, mgrPc, watcherOpen, errch,
                   cancelled, resets, incs, wk>>

\* ResetWall, case id := <-wall.forceFreeze.
WallForceFreeze ==
    /\ wl.pc = "run"
    /\ wl.forceFreeze # <<>>
    /\ LET id == Head(wl.forceFreeze)
           w1 == wallFreeze([wl EXCEPT !.forceFreeze = Tail(@)], id)
       IN WallDo("ForceFreeze", id, TRUE,
                 [w1 EXCEPT !.toUnfreeze = Append(@, id), !.frozen[id] = TRUE],
                 <<>>)

\* ResetWall, case id := <-wall.toFreeze.
WallToFreeze ==
    /\ wl.pc = "run"
    /\ wl.toFreeze # <<>>
    /\ LET id == Head(wl.toFreeze)
           w1 == [wl EXCEPT !.toFreeze = Tail(@)]
       IN WallDo("ToFreeze", id, wl.states[id] = "Idle",
                 IF wl.states[id] = "Idle" THEN wallFreeze(w1, id) ELSE w1,
                 <<>>)

\* The states the log readers report, and for a preview whether its
\* progress has reached conf.AdvancedWall.LowThreshold.
LogStates == {"Idle", "Generating", "Preview"}

\* UpdateAffinity without the rule for a locked instance.
UpdateAffinityUnlocked(w, id, state, low) ==
    IF ~w.conf.Affinity THEN w
    ELSE IF state = "Generating" THEN wallSetAffinity(w, id, "high")
    ELSE IF state = "Preview" /\ low THEN wallSetAffinity(w, id, "low")
    ELSE IF state = "Idle" THEN wallSetAffinity(w, id, "idle")
    ELSE w

\* The update as ResetWall receives it: the phase, and for a preview
\* whether update.State.Progress >= conf.AdvancedWall.LowThreshold.
UpdateOf(state, low) ==
    IF state = "Preview"
    THEN <<state, IF low THEN "AtThreshold" ELSE "Below">>
    ELSE <<state>>

\* ResetWall, case update := <-logUpdates, the affinity part.
UpdateAffinity(w, id, state, low) ==
    IF ~w.conf.Affinity THEN w
    ELSE IF w.locks[id] /\ state # "Idle" THEN wallSetAffinity(w, id, "high")
    ELSE IF state = "Generating" THEN wallSetAffinity(w, id, "high")
    ELSE IF state = "Preview" /\ low THEN wallSetAffinity(w, id, "low")
    ELSE IF state = "Idle" THEN wallSetAffinity(w, id, "idle")
    ELSE w

\* ResetWall, case update := <-logUpdates with !update.Done.
WallLogUpdate(id, state, low) ==
    /\ wl.pc = "run"
    /\ LET w1 == IF wl.states[id] # state /\ state \in {"Preview", "Idle"}
                 THEN EmitAll(wl, PauseMacro(id)) ELSE wl
           w2 == IF wl.conf.Freeze /\ state = "Idle"
                 THEN StartIdleFreeze(w1, id) ELSE w1
           w3 == IF wl.conf.ConcResets > 0 /\ state = "Idle"
                     /\ w2.toUnfreeze # <<>>
                 THEN LET un == Head(w2.toUnfreeze)
                      IN [wallUnfreeze(w2, un)
                             EXCEPT !.toUnfreeze = Tail(@),
                                    !.frozen[un] = FALSE]
                 ELSE w2
           w4 == [w3 EXCEPT !.states[id] = state]
       IN WallDo("LogUpdate", id, TRUE, UpdateAffinity(w4, id, state, low),
                 UpdateOf(state, low))

\* ResetWall, case update := <-logUpdates with update.Done: a log reader
\* was closed and ResetWall returns.
WallLogClosed ==
    /\ wl.pc = "run"
    /\ WallDo("LogClosed", NoActive, FALSE, [wl EXCEPT !.pc = "done"], <<>>)

\* ResetWall, case <-uiStopped: ResetWall returns.
WallUiStopped ==
    /\ wl.pc = "run"
    /\ WallDo("UiStopped", NoActive, TRUE, [wl EXCEPT !.pc = "done"], <<>>)

\* ResetWall, key down of conf.Keys.Focus.
WallFocusKey ==
    /\ wl.pc = "run"
    /\ WallDo("FocusKey", IF wl.onWall THEN NoActive ELSE wl.current, TRUE,
              Emit(wl, IF wl.onWall THEN FocusProjector
                       ELSE FocusWindow(wl.current)),
              <<>>)

\* ResetWall, key down of conf.Keys.Reset: wallHandleResetKey.
WallResetKey(timestamp, p, seen) ==
    /\ wl.pc = "run"
    /\ WallDo("ResetKey", IF wl.onWall THEN NoActive ELSE wl.current, TRUE,
              wallHandleResetKey(wl, timestamp, p, seen), <<>>)

\* ResetWall, key down of a grid key on the wall, or a button or motion
\* event of the pointer the wall has grabbed: wallHandleEvent.
WallGridEvent(id, state, timestamp) ==
    /\ wl.pc = "run"
    /\ wl.onWall
    /\ LET w == wallHandleEvent(wl, id, state, timestamp)
       IN WallDo(state, id, w # wl, w, <<>>)

\* The grid keys have the codes from GridBase on, and no more than
\* MaxGridId + 1 of them are looked at.
GridBase == 10
MaxGridId == 8

\* The key codes and the cells of the projector the model's events carry:
\* those of the instances, the key codes next to them up to MaxBeyond past
\* the one of the instance count, and MaxBeyond cells past the last instance.
MaxBeyond == 1
KeyCodes == GridBase - MaxBeyond .. GridBase + NumInstances + MaxBeyond
Cells == 0 .. NumInstances + MaxBeyond - 1

\* The modifiers an event carries: those bound to a wall action, or another.
EventMods == WallMods \cup {"other"}

\* wallHandleEvent(&wall, id, state, timestamp) as ResetWall calls it: a
\* modifier bound to no action does nothing; an action on an id that is no
\* index of the per-instance slices panics (index out of range).
Dispatch(w, id, state, timestamp) ==
    IF state \notin WallMods THEN w
    ELSE IF id \notin Ids THEN [w EXCEPT !.pc = "panic"]
    ELSE wallHandleEvent(w, id, state, timestamp)

\* ResetWall, key down of a key that is neither conf.Keys.Focus nor
\* conf.Keys.Reset: off the wall it is ignored; on the wall the id is the
\* key code less GridBase. (A code below GridBase gives a negative id, or
\* with an unsigned code one above MaxGridId: it is ignored either way.)
WallKeyDown(code, state, timestamp) ==
    /\ wl.pc = "run"
    /\ LET id == code - GridBase IN
       IF ~wl.onWall \/ id < 0 \/ id > MaxGridId \/ id > NumInstances
       THEN WallDo("GridKey", id, FALSE, wl, <<>>)
       ELSE WallDo("GridKey", id, TRUE, Dispatch(wl, id, state, timestamp),
                   <<state>>)

\* ResetWall, x11.MoveEvent with button 1 held (move = TRUE) or
\* x11.ButtonEvent (move = FALSE) over cell id of the projector: an id past
\* the instances is ignored, and so is a move inside the cell of the last
\* event.
WallPointer(move, id, state, timestamp) ==
    /\ wl.pc = "run"
    /\ IF id >= NumInstances \/ (move /\ wl.lastMouseId = id)
       THEN WallDo(IF move THEN "PointerMove" ELSE "PointerButton", id,
                   FALSE, wl, <<>>)
       ELSE WallDo(IF move THEN "PointerMove" ELSE "PointerButton", id, TRUE,
                   Dispatch([wl EXCEPT !.lastMouseId = id], id, state,
                            timestamp),
                   <<state>>)

\* A goroutine started by a reset or a log update wakes and sends its id on
\* forceFreeze or toFreeze.
WallTimer(t) ==
    /\ wl.pc = "run"
    /\ BagIn(t, wl.timers)
    /\ LET id == IF t.src = "current" THEN wl.current ELSE t.id
           w1 == [wl EXCEPT !.timers = @ (-) SetToBag({t})]
       IN IF t.kind = "force"
          THEN WallDo("ForceTimer", t.id, TRUE,
                      [w1 EXCEPT !.forceFreeze = Append(@, id)], <<id>>)
          ELSE WallDo("IdleTimer", t.id, TRUE,
                      [w1 EXCEPT !.toFreeze = Append(@, id)], <<id>>)

----------------------------------------------------------------------------
(***************************************************************************)
(* ctl.inputManager (src/manager/worker.go): the poll loop that turns the  *)
(* keys and buttons held into one Input per tick.  A binding is its set of *)
(* keys and its set of buttons.                                            *)
(***************************************************************************)
Keys == 1 .. MaxKeys

Buttons == 1 .. MaxButtons

\* cfg.Bind: Keys[:KeyCount] and Buttons[:ButtonCount], not both empty.
Binds ==
    {b \in [keys : SUBSET Keys, buttons : SUBSET Buttons] :
        b.keys # {} \/ b.buttons # {}}

KeyCount(b) == Cardinality(b.keys)

ButtonCount(b) == Cardinality(b.buttons)

\* The less function handed to slices.SortFunc.
BindLess(a, b) ==
    IF KeyCount(b) < KeyCount(a) THEN TRUE
    ELSE ButtonCount(b) < ButtonCount(a)

\* slices.SortFunc on a slice of at most 12 elements is an insertion sort:
\* for i := 1; i < n; i++ { for j := i; j > 0 && less(data[j], data[j-1]);
\* j-- { swap } }. SiftDown is the inner loop from position j.
RECURSIVE SiftDown(_, _)
SiftDown(data, j) ==
    IF j > 1 /\ BindLess(data[j], data[j - 1])
    THEN SiftDown([data EXCEPT ![j] = data[j - 1], ![j - 1] = data[j]], j - 1)
    ELSE data

RECURSIVE SortFrom(_, _)
SortFrom(data, i) ==
    IF i > Len(data) THEN data ELSE SortFrom(SiftDown(data, i), i + 1)

SortFunc(data) == SortFrom(data, 2)

\* keymap.HasPressed(mask) && pointer.HasPressed(buttons)
HasPressed(b, keymap, pointer) ==
    b.keys \subseteq keymap /\ b.buttons \subseteq pointer

\* The orders in which "for bind := range i.conf.Keybinds" can meet the
\* bindings of S: Go iterates a map in no defined order.
IterationOrders(S) ==
    {p \in [1 .. Cardinality(S) -> S] :
        \A a, b \in 1 .. Cardinality(S) : a # b => p[a] # p[b]}

\* ctl.Run: c.inputMgr = inputManager{c.conf, c.x, nil}
InputInit ==
    im \in [pc : {"run"},
            binds : {B \in SUBSET Binds :
                        Cardinality(B) >= 1 /\ Cardinality(B) <= MaxBinds},
            lastBinds : {<<>>}]

\* inputManager.Run, one iteration of its loop: failed tells that
\* QueryKeymap or QueryPointer returned an error; keymap and pointer are the
\* keys and buttons held; order is the map's iteration order over the
\* bindings that are pressed.
ImPoll(keymap, pointer, order, failed) ==
    /\ im.pc = "run"
    /\ IF failed
       THEN /\ out' = Outcome("Poll", NoActive, "-", FALSE, <<>>, <<>>, 0)
            /\ UNCHANGED im
       ELSE IF order = <<>>
       THEN /\ im' = [im EXCEPT !.lastBinds = <<>>]
            /\ out' = Outcome("Poll", NoActive, "-", TRUE, <<>>, <<>>, 0)
       ELSE LET pressed == SortFunc(order)
                bind == pressed[1]
                held == \E k \in DOMAIN im.lastBinds : im.lastBinds[k] = bind
            IN /\ im' = [im EXCEPT !.lastBinds = pressed]
               /\ out' = Outcome("Poll", NoActive, "-", TRUE, <<>>,
                                 <<[Bind |-> bind, Held |-> held]>>, 0)
    /\ UNCHANGED <<conf, now, active, instances, mgrPc, watcherOpen, errch,
                   cancelled, resets, incs, wk, evtch, sending, ctr, wl,
                   disc, ctlPc>>

----------------------------------------------------------------------------
(***************************************************************************)
(* The specification of the Manager as the Controller drives it: the       *)
(* frontend's Play and ResetInstance calls, the clock, and the state-file  *)
(* writes Manager.Run processes.                                           *)
(***************************************************************************)
Init == MgrInit /\ wk = WorkerOff /\ wl = WallOff /\ im = InputOff /\ disc = FindOff

Next ==
    \/ Tick
    \/ \E id \in Ids : Play(id)
    \/ \E id \in Ids : ResetInstance(id)
    \/ \E id \in Ids, res \in ReaderResults : MgrRunWrite(id, res)
    \/ MgrRunDeliver
    \/ CtlRecvEvent

Spec == Init /\ [][Next]_vars

(***************************************************************************)
(* The specification of the log coordinators.  The program has had two: the *)
(* Manager's Run loop over all instances, and before it one Worker per      *)
(* instance; a run of the program has one of them.                          *)
(***************************************************************************)
\* A Manager that was never created.
MgrNone ==
    /\ conf = [WallEnabled |-> FALSE, UnpauseFocus |-> FALSE,
               UseF1 |-> FALSE, CountResets |-> FALSE]
    /\ now = GracePeriod
    /\ active = NoActive
    /\ instances = [i \in Ids |-> ZeroState]
    /\ mgrPc = "off"
    /\ watcherOpen = FALSE
    /\ errch = 0
    /\ cancelled = FALSE
    /\ resets = 0
    /\ incs = 0
    /\ evtch = 0
    /\ sending = NoActive
    /\ ctlPc = "select"
    /\ out = NoOutcome

MgrOff ==
    /\ MgrNone
    /\ ctr = CtrOff

InitRun ==
    /\ (MgrInit /\ wk = WorkerOff) \/ (MgrOff /\ WorkerInit)
    /\ wl = WallOff
    /\ im = InputOff /\ disc = FindOff

NextRun ==
    \/ \E id \in Ids, res \in ReaderResults : MgrRunWrite(id, res)
    \/ MgrRunDeliver
    \/ CtlRecvEvent
    \/ \E id \in Ids, failed \in BOOLEAN : MgrRunOther(id, failed)
    \/ MgrRunWatcherError
    \/ WatcherClose
    \/ MgrRunErrorsClosed
    \/ MgrRunEventsClosed
    \/ MgrRunSend
    \/ MgrRunCancelled
    \/ CtlRecvMgrError
    \/ CtlSignal
    \/ \E batch \in Batches, focus \in {"err", "this", "other"} :
           WkWrite(batch, focus)
    \/ \E time \in 0 .. MaxStamp, failed \in BOOLEAN : WkFocus(time, failed)
    \/ \E time \in 0 .. MaxStamp : WkFullscreen(time)
    \/ \E time \in 0 .. MaxStamp, ret \in 0 .. MaxStamp :
           ret >= time /\ WkReset(time, ret)
    \/ WkWatcherError
    \/ WkWatcherClose
    \/ \E which \in {"WkErrorsClosed", "WkEventsClosed"} : WkChannelClosed(which)
    \/ WkLogGone
    \/ WkStop
    \/ \E found \in BOOLEAN, state \in {"Unknown", "Generating", "Ready", "Preview"} :
           CmdResetReboot(found, state)

SpecRun == InitRun /\ [][NextRun]_vars

(***************************************************************************)
(* The specification of the wall: ResetWall's loop with the events it      *)
(* handles, and the Worker calls of the wall manager before it.            *)
(***************************************************************************)
InitWall ==
    /\ MgrOff
    /\ (wk = WorkerOff /\ WallInit) \/ (WorkerInit /\ wl = WallOff)
    /\ im = InputOff /\ disc = FindOff

NextWall ==
    \/ WallForceFreeze
    \/ WallToFreeze
    \/ \E id \in Ids, state \in LogStates, low \in BOOLEAN :
           /\ low => (state = "Preview" /\ wl.conf.Affinity)
           /\ WallLogUpdate(id, state, low)
    \/ WallLogClosed
    \/ WallUiStopped
    \/ WallFocusKey
    \/ \E timestamp \in WallStamps :
           \E p \in WriteOrders(IF wl.onWall THEN ResetAllResetting(wl) ELSE {}) :
               \E seen \in SeenBy(IF wl.onWall THEN ResetAllResetting(wl)
                                  ELSE {}, p) :
                   WallResetKey(timestamp, p, seen)
    \/ \E id \in Ids, state \in WallMods, timestamp \in WallStamps :
           WallGridEvent(id, state, timestamp)
    \/ \E t \in BagToSet(wl.timers) : WallTimer(t)
    \/ \E batch \in Batches, focus \in {"err", "this", "other"} :
           WkWrite(batch, focus)
    \/ \E time \in 0 .. MaxStamp, failed \in BOOLEAN : WkFocus(time, failed)
    \/ \E time \in 0 .. MaxStamp, ret \in 0 .. MaxStamp :
           ret >= time /\ WkReset(time, ret)

SpecWall == InitWall /\ [][NextWall]_vars

(***************************************************************************)
(* The specification of the wall's event dispatch: ResetWall under key,    *)
(* pointer-move and button events over and beside the grid, the reset key  *)
(* and log updates, with no reset cap and no idle freeze.                  *)
(***************************************************************************)
InitGrid ==
    /\ MgrOff
    /\ wk = WorkerOff
    /\ WallInit
    /\ wl.conf.ConcResets = 0
    /\ ~wl.conf.Freeze
    /\ im = InputOff
    /\ disc = FindOff

NextGrid ==
    \/ \E code \in KeyCodes, state \in EventMods, timestamp \in WallStamps :
           WallKeyDown(code, state, timestamp)
    \/ \E move \in BOOLEAN, id \in Cells, state \in EventMods,
          timestamp \in WallStamps :
           WallPointer(move, id, state, timestamp)
    \/ \E id \in Ids, state \in LogStates : WallLogUpdate(id, state, FALSE)
    \/ \E timestamp \in WallStamps :
           \E p \in WriteOrders(IF wl.onWall THEN ResetAllResetting(wl) ELSE {}) :
               \E seen \in SeenBy(IF wl.onWall THEN ResetAllResetting(wl)
                                  ELSE {}, p) :
                   WallResetKey(timestamp, p, seen)

SpecGrid == InitGrid /\ [][NextGrid]_vars

(***************************************************************************)
(* The specification of a Worker's life: Start, Stop and the ends of its   *)
(* run goroutine, on a Worker that was never started.                      *)
(***************************************************************************)
InitStart ==
    /\ MgrOff
    /\ wk = WorkerOff
    /\ wl = WallOff
    /\ im = InputOff
    /\ disc = FindOff

NextStart ==
    \/ \E failed \in BOOLEAN,
          state \in {"Unknown", "Generating", "Ready", "Preview"} :
           WkStart(failed, state)
    \/ WkStopReturns
    \/ WkStopExit
    \/ WkWatcherError
    \/ WkWatcherClose
    \/ \E which \in {"WkErrorsClosed", "WkEventsClosed"} : WkChannelClosed(which)
    \/ WkLogGone

SpecStart == InitStart /\ [][NextStart]_vars

(***************************************************************************)
(* The specification of the inputManager: its poll loop under every state  *)
(* of the keyboard and the pointer.                                        *)
(***************************************************************************)
InitInput ==
    MgrOff /\ wk = WorkerOff /\ wl = WallOff /\ InputInit /\ disc = FindOff

NextInput ==
    \E keymap \in SUBSET Keys, pointer \in SUBSET Buttons, failed \in BOOLEAN :
        \E order \in IterationOrders(
                          {b \in im.binds : HasPressed(b, keymap, pointer)}) :
            ImPoll(keymap, pointer, order, failed)

SpecInput == InitInput /\ [][NextInput]_vars

(***************************************************************************)
(* The specification of the reset counter: newCounter over the count files *)
(* a user may have left, Increment calls, counter.Run's two cases and the  *)
(* clock.  A file newCounter cannot parse fails ctl.Run before anything    *)
(* else is created.                                                        *)
(***************************************************************************)
\* The contents of the count file at startup.
CountFiles ==
    { <<>>, <<"9">>, <<"4", "1">>, <<"0", "7">>, <<" ", "7">>,
      <<"7", "\n">>, <<"x">>, <<"\n">> }

CountersAt(t) == {newCounter(TRUE, f, t) : f \in CountFiles}

InitCounter ==
    /\ \/ /\ MgrStart
          /\ conf = [WallEnabled |-> FALSE, UnpauseFocus |-> FALSE,
                     UseF1 |-> FALSE, CountResets |-> TRUE]
          /\ ctr \in {c \in CountersAt(GracePeriod) : c.pc = "run"}
       \/ /\ MgrNone
          /\ ctr \in {c \in CountersAt(GracePeriod) : c.pc = "failed"}
    /\ wk = WorkerOff
    /\ wl = WallOff
    /\ im = InputOff /\ disc = FindOff

\* counter.Increment: one value is sent on inc, which has room.
CtrIncrement ==
    /\ ctr.pc = "run"
    /\ ~cancelled
    /\ incs < MaxIncs
    /\ incs - ctr.taken < IncCap
    /\ incs' = incs + 1
    /\ out' = Outcome("Increment", NoActive, "-", TRUE, <<>>, <<>>, 0)
    /\ UNCHANGED <<ctlPc, disc, im, wl, ctr, evtch, sending>>
    /\ UNCHANGED <<conf, now, active, instances, mgrPc, watcherOpen, errch,
                   cancelled, resets, wk>>

\* The clock of a counter run advances by half a second.
CtrTick ==
    /\ now < GracePeriod + MaxCtrTicks
    /\ now' = now + 1
    /\ out' = NoOutcome
    /\ UNCHANGED <<ctlPc, disc, im, wl, ctr, evtch, sending>>
    /\ UNCHANGED <<conf, active, instances, mgrPc, watcherOpen, errch,
                   cancelled, resets, incs, wk>>

NextCounter ==
    \/ CtrIncrement
    \/ CtrRecv
    \/ CtrCancelled
    \/ CtrTick
    \/ CtlSignal

SpecCounter == InitCounter /\ [][NextCounter]_vars

(***************************************************************************)
(* The specification of instance discovery: FindInstances over every list  *)
(* of windows the X server may return.                                     *)
(***************************************************************************)
WindowLists == UNION {[1 .. n -> WindowValues] : n \in 0 .. MaxWindows}

InitFind ==
    /\ MgrOff
    /\ wk = WorkerOff
    /\ wl = WallOff
    /\ im = InputOff
    /\ disc \in {[FindOff EXCEPT !.pc = "call", !.windows = ws] :
                     ws \in WindowLists}

\* FindInstances runs and returns.
FindDo ==
    /\ disc.pc = "call"
    /\ LET r == FindInstances(disc.windows) IN
        /\ disc' = [disc EXCEPT !.pc = "done", !.ok = r.ok,
                                  !.instances = r.instances, !.err = r.err]
        /\ out' = Outcome("FindInstances", NoActive, "-", r.ok, <<>>, <<>>, 0)
    /\ UNCHANGED <<conf, now, active, instances, mgrPc, watcherOpen, errch,
                   cancelled, resets, incs, wk, evtch, sending, ctr, wl, im,
                   ctlPc>>

NextFind == FindDo

SpecFind == InitFind /\ [][NextFind]_vars

(***************************************************************************)
(* The specification of the Manager and the Controller on m.mu: the        *)
(* Manager API with the Controller's wait in m.mu.Lock() as a step of its  *)
(* own.  The keys a call sends play no part: one profile per wall mode.    *)
(***************************************************************************)
InitLock == Init /\ ~conf.UnpauseFocus /\ ~conf.UseF1

NextLock == Next \/ CtlWaitsForMu

SpecLock == InitLock /\ [][NextLock]_vars

(***************************************************************************)
(* The specification of shutdown: ctl.Run's goroutines (Manager.Run,       *)
(* counter.Run) and Controller.run up to and after the cancellation.  A    *)
(* select with a ready case takes some ready case, and takes the ready     *)
(* ctx.Done() case eventually; a blocked send completes once the channel   *)
(* has room.                                                               *)
(***************************************************************************)
InitStop ==
    /\ Init
    /\ ~conf.WallEnabled /\ ~conf.UnpauseFocus

NextStop ==
    \/ \E id \in Ids : ResetInstance(id)
    \/ \E id \in Ids, res \in ReaderResults : MgrRunWrite(id, res)
    \/ MgrRunDeliver
    \/ CtlRecvEvent
    \/ WatcherClose
    \/ MgrRunErrorsClosed
    \/ MgrRunEventsClosed
    \/ MgrRunSend
    \/ MgrRunCancelled
    \/ CtlRecvMgrError
    \/ CtlSignal
    \/ CtrRecv
    \/ CtrCancelled

SpecStop ==
    /\ InitStop
    /\ [][NextStop]_vars
    /\ WF_vars(MgrRunCancelled)
    /\ WF_vars(MgrRunDeliver)
    /\ WF_vars(MgrRunSend)
    /\ WF_vars(CtrRecv)
    /\ WF_vars(CtrCancelled)

----------------------------------------------------------------------------
(***************************************************************************)
(* Properties.                                                             *)
(***************************************************************************)
Ingame == {i \in Ids : instances[i].Type = "Ingame"}

\* The key operations among the X operations ops.
KeyOps(ops) ==
    {k \in DOMAIN ops : ops[k].op \in {"KeyDown", "KeyPress", "KeyUp"}}

\* The step is a Manager.Run Write that stored the reader's state for id.
WriteStep(id) == out'.call = "Write" /\ out'.id = id /\ out'.ok

\* The step is a Controller.ResetInstance(id) call.
ResetStep(id) == out'.call = "Reset" /\ out'.id = id

\* A reset of instance out.id has just returned; st is its state, which the
\* reset itself never changes.
JustReset == out.call = "Reset"

\* C1: after any sequence of Play, Reset and log updates, at most one
\* instance has phase Ingame and at most one is recorded as active, also when
\* Play(j) is issued while another instance i is still Ingame.
C1_AtMostOneIngame ==
    /\ Cardinality(Ingame) <= 1
    /\ active \in Ids \cup {NoActive}

\* C2: if an instance's phase is Ingame when a batch whose last recognized
\* marker is the Idle-candidate (for Manager.Run: the reader's stWorld) is
\* processed, the phase stays Ingame and no auto-pause macro is sent to it.
C2_IngameKeptOnPause ==
    [][\A id \in Ids :
          (WriteStep(id) /\ out'.input = StWorld
               /\ instances[id].Type = "Ingame")
              => (instances'[id].Type = "Ingame" /\ out'.ops = <<>>)]_vars

\* C3 as claimed: Manager.Reset(id) fails whenever the phase is Dirt, whenever
\* it is Preview with Progress > 85, and whenever the grace period has not
\* elapsed since LastPreview, whether or not wall mode is enabled.
C3_RejectedRegardlessOfWall ==
    LET st == instances[out.id]
    IN (JustReset /\ (\/ st.Type = "Dirt"
                      \/ st.Type = "Preview" /\ st.Progress > MaxResetProgress
                      \/ Since(st.LastPreview) < GracePeriod))
           => ~out.ok

\* C3 as amended: Manager.Reset(id) fails whenever the phase is Dirt, whenever
\* it is Preview with Progress > 85, and, in wall mode, whenever the grace
\* period has not elapsed since LastPreview.
C3_Rejected ==
    LET st == instances[out.id]
    IN (JustReset /\ (\/ st.Type = "Dirt"
                      \/ st.Type = "Preview" /\ st.Progress > MaxResetProgress
                      \/ conf.WallEnabled
                             /\ Since(st.LastPreview) < GracePeriod))
           => ~out.ok

\* C3 witness: a reset rejected for the grace period alone.
C3_Witness ==
    LET st == instances[out.id]
    IN /\ JustReset
       /\ ~out.ok
       /\ conf.WallEnabled
       /\ Since(st.LastPreview) < GracePeriod
       /\ st.Type = "Preview"
       /\ st.Progress <= MaxResetProgress

\* C2, for the Worker alone: Worker.updateState leaves an Ingame instance
\* Ingame and sends nothing when the batch reads as Ready.
C2_WorkerKeepsIngame ==
    [][(out'.call = "updateState" /\ out'.input = "Ready"
            /\ wk.State = "Ingame")
           => (wk'.State = "Ingame" /\ out'.ops = <<>>)]_vars

\* A reset that succeeded sent exactly one key operation, the press of the
\* reset key of the instance's phase.
OneResetKey ==
    /\ Cardinality(KeyOps(out.ops)) = 1
    /\ \E k \in DOMAIN out.ops :
           out.ops[k] = KeyPress(out.id,
                                 IF instances[out.id].Type = "Preview"
                                 THEN "PreviewKey" ELSE "ResetKey")

\* C4 as claimed: Manager.Reset(id) succeeds and sends exactly one reset key
\* press for phase Idle, Generating or Ingame, and for Preview with
\* Progress <= 85 once the grace period has elapsed; an Idle instance is
\* resettable however recently it was in Preview.
C4_IdleAlwaysResettable ==
    LET st == instances[out.id]
    IN (JustReset
            /\ (\/ st.Type \in {"Idle", "Generating", "Ingame"}
                \/ /\ st.Type = "Preview"
                   /\ st.Progress <= MaxResetProgress
                   /\ Since(st.LastPreview) >= GracePeriod))
           => (out.ok /\ OneResetKey)

\* C4 as amended: Manager.Reset(id) succeeds and sends exactly one reset key
\* press in every case not covered by the rejection rules: the phase is not
\* Dirt, it is not Preview with Progress > 85, and wall mode is off or the
\* grace period has elapsed since LastPreview. In wall mode an Idle,
\* Generating or Ingame instance is rejected too while the grace period since
\* its last Preview entry runs.
C4_Accepted ==
    LET st == instances[out.id]
    IN /\ (JustReset
               /\ st.Type # "Dirt"
               /\ ~(st.Type = "Preview" /\ st.Progress > MaxResetProgress)
               /\ (~conf.WallEnabled \/ Since(st.LastPreview) >= GracePeriod))
              => (out.ok /\ OneResetKey)
       /\ (JustReset /\ conf.WallEnabled
               /\ Since(st.LastPreview) < GracePeriod)
              => ~out.ok

\* C4 witness: a Preview at Progress 85 reset in wall mode once the grace
\* period is over.
C4_Witness ==
    LET st == instances[out.id]
    IN /\ JustReset
       /\ out.ok
       /\ conf.WallEnabled
       /\ st.Type = "Preview"
       /\ st.Progress = MaxResetProgress
       /\ st.LastPreview > 0

\* C5: a rejected Manager.Reset(id) is a pure no-op: no key event and no
\* window move is sent, and the active id and every instance's phase,
\* Progress and LastPreview are unchanged.
C5_RejectedIsNoOp ==
    [][\A id \in Ids :
          (ResetStep(id) /\ ~out'.ok)
              => (out'.ops = <<>> /\ UNCHANGED <<active, instances>>)]_vars

\* C5 witness: a reset of the active instance was rejected.
C5_Witness == JustReset /\ ~out.ok /\ active = out.id

\* C6: a successful Manager.Reset(id) sets active to -1 if and only if id was
\* the active instance; a successful reset of any other instance leaves the
\* active id unchanged.
C6_ActiveAfterReset ==
    [][\A id \in Ids :
          (ResetStep(id) /\ out'.ok /\ resets' = resets + 1)
              => /\ active = id => active' = NoActive
                 /\ active # id => active' = active]_vars

\* C6 witness: another instance than the active one was reset.
C6_Witness == JustReset /\ out.ok /\ active \in Ids /\ active # out.id

\* C7 as claimed: at any time the number of increments enqueued equals the
\* number of accepted resets.
C7_IncrementPerReset == incs = resets

\* C7 as amended: with reset counting configured, the number of increments
\* enqueued equals the number of accepted resets at any time; with the no-op
\* counter (no count file configured) nothing is ever enqueued.
C7_IncrementPerCountedReset ==
    IF conf.CountResets THEN incs = resets ELSE incs = 0

\* C7 witness: with counting on, a rejected reset after accepted ones.
C7_Witness == conf.CountResets /\ resets >= 1 /\ JustReset /\ ~out.ok

\* C8: a world-loaded signal resolves to Ingame for the active instance and
\* to Idle for any other; the auto-pause macro is sent exactly once per
\* transition into Idle of a non-active instance, and never for an instance
\* that resolves to Ingame.
C8_MacroOncePerTransition ==
    [][\A id \in Ids :
          (WriteStep(id) /\ out'.input = StWorld)
              => /\ instances'[id].Type
                        = (IF active = id THEN "Ingame" ELSE "Idle")
                 /\ out'.ops
                        = (IF instances[id].Type # "Idle"
                              /\ instances'[id].Type = "Idle"
                           THEN PauseMacro(id) ELSE <<>>)]_vars

C10_WatcherErrorFatal ==
    /\ out.call = "WatcherError" => (mgrPc = "done" /\ out.errs = 1)
    /\ out.call = "WkWatcherError" => (wk.pc = "done" /\ out.errs = 1)

\* C10 as amended: a watcher error received while the watcher's error channel
\* is open is not fatal: it is logged, nothing is sent on the upstream error
\* channel and the coordinator's loop keeps running, in Manager.Run and in
\* Worker.run alike. Only a closed watcher channel is reported upstream.
C10_WatcherErrorLogged ==
    [][/\ out'.call = "WatcherError"
              => /\ mgrPc' = "run"
                 /\ out'.errs = 0
                 /\ UNCHANGED <<errch, active, instances, watcherOpen>>
       /\ out'.call = "WkWatcherError" => (wk' = wk /\ out'.errs = 0)
       /\ (out'.call \in {"ErrorsClosed", "EventsClosed"} /\ out' # out)
              => \/ errch' = errch + 1 /\ out'.errs = 1
                 \/ mgrPc' \in {"sendThenLoop", "sendThenReturn"}
       /\ out'.call \in {"WkErrorsClosed", "WkEventsClosed"}
              => \/ wk'.errs = wk.errs + 1 /\ wk'.pc = "done"
                 \/ UNCHANGED vars]_vars

\* C10 witness: a watcher error was received and the Manager's loop still
\* runs with nothing reported.
C10_Witness ==
    /\ out.call = "WatcherError"
    /\ mgrPc = "run"
    /\ errch = 0
    /\ watcherOpen

\* C11: when the watcher channel is closed or a watched log file is renamed
\* or deleted, exactly one fatal error is reported upstream, the coordinator
\* or worker goroutine stops, and the run is ended rather than the manager
\* being restarted.
C11_FatalEndsRun ==
    [][/\ (out'.call \in {"ErrorsClosed", "EventsClosed"} /\ out' # out)
              => (out'.errs = 1 /\ errch' = errch + 1 /\ mgrPc' = "done")
       /\ out'.call \in {"WkErrorsClosed", "WkEventsClosed", "WkLogGone"}
              => (out'.errs = 1 /\ wk'.errs = wk.errs + 1 /\ wk'.pc = "done")
       /\ wk.pc = "done" => wk'.pc # "run"
       /\ mgrPc = "done" => mgrPc' = "done"
       /\ out'.call = "CtlError" => cancelled']_vars

\* C12: the log coordinator is never blocked indefinitely by a slow consumer
\* of the outbound Update channel: when the channel is full, Manager.Run
\* reports the condition (on the error channel) instead of blocking or
\* dropping the update.
C12_FullQueueReported ==
    [][\A id \in Ids :
          (WriteStep(id) /\ evtch = EvtchCap)
              => (mgrPc' # "sendEvt" /\ out'.errs = 1)]_vars

\* C13: in every reachable state no window I/O (key send, focus, window move)
\* and no blocking channel send has been performed by a goroutine while it
\* held the Manager's registry mutex.
C13_NoIoUnderMutex ==
    /\ LockedOps(out) = <<>>
    /\ LockedSends(out) = <<>>
    /\ ~MuHeld

\* C14: after the shared cancellation signal fires, the log coordinator
\* (Manager.Run) and the reset counter (counter.Run) each eventually
\* terminate, from every reachable state including one where the outbound
\* event channel is full.
C14_TerminatesAfterCancel ==
    cancelled ~> (mgrPc = "done" /\ ctr.pc = "done")

\* C14, the counter alone: counter.Run terminates after the cancellation.
C14_CounterTerminates == cancelled ~> ctr.pc = "done"

\* C14, Manager.Run alone: after the cancellation it terminates or is blocked
\* in a channel send for good.
C14_RunTerminatesOrBlocks ==
    cancelled ~> \/ mgrPc = "done"
                 \/ [](mgrPc \in {"sendEvt", "sendThenLoop", "sendThenReturn"})

\* C15: for each instance, the input timestamp recorded for it never
\* decreases across any sequence of Focus, Fullscreen, Reset, Play and macro
\* sends: every call leaves the recorded timestamp >= its previous value,
\* even when called with an older timestamp argument.
C15_TimestampNeverDecreases == [][wk'.lastTime >= wk.lastTime]_vars

\* The positions in ops of the Escape presses and of the window moves.
EscOps(ops) == {k \in DOMAIN ops : ops[k].op = "KeyPress" /\ ops[k].arg = "Esc"}
MoveOps(ops) == {k \in DOMAIN ops : ops[k].op = "MoveWindow"}

\* Play has just returned: it left id active and Ingame and its last X
\* operation, and only that one, focused the window.
PlayedAndFocused ==
    /\ active = out.id
    /\ instances[out.id].Type = "Ingame"
    /\ out.ops # <<>>
    /\ out.ops[Len(out.ops)] = FocusWindow(out.id)
    /\ \A k \in DOMAIN out.ops :
           out.ops[k].id = out.id
               /\ (out.ops[k].op = "FocusWindow" => k = Len(out.ops))

\* C16 as claimed: Manager.Play(id) in wall mode restores the unstretched
\* geometry (MoveWindow) before any Escape key press of the unpause or
\* pause-escape sequence, and FocusWindow is the last operation; on return
\* active = id and phase(id) = Ingame.
C16_MoveBeforeAnyEscape ==
    (out.call = "Play" /\ conf.WallEnabled)
        => /\ PlayedAndFocused
           /\ \E m \in MoveOps(out.ops) :
                  \A k \in EscOps(out.ops) : m < k

\* C16 as amended: Manager.Play(id) leaves id active and Ingame and focuses
\* the window last. In wall mode it restores the unstretched geometry with
\* one MoveWindow that precedes the two Escape presses of the pause-escape
\* sequence, which are the last operations before the focus; the Escape
\* press of the unpause (sent iff UnpauseFocus is set) precedes the
\* MoveWindow. Outside wall mode no window is moved.
C16_PlayOrder ==
    LET ops == out.ops
        n == Len(ops)
        unpause == IF conf.UnpauseFocus THEN 1 ELSE 0
    IN out.call = "Play"
           => /\ PlayedAndFocused
              /\ IF conf.WallEnabled
                 THEN \E m \in DOMAIN ops :
                         /\ MoveOps(ops) = {m}
                         /\ ops[m] = MoveWindow(out.id, "UnstretchRes")
                         /\ {k \in EscOps(ops) : k > m} = {n - 2, n - 1}
                         /\ Cardinality({k \in EscOps(ops) : k < m}) = unpause
                 ELSE /\ MoveOps(ops) = {}
                      /\ Cardinality(EscOps(ops)) = unpause

\* C16 witness: a Play in wall mode with the unpause and F1 set, superseding
\* nothing that changes the order.
C16_Witness ==
    /\ out.call = "Play"
    /\ conf.WallEnabled /\ conf.UnpauseFocus /\ conf.UseF1
    /\ Len(out.ops) = 6

\* The wall handled a Play of the grid (wallHandleEvent with the WallPlay
\* modifier) that changed something.
WallPlayed == out.call = "WallPlay" /\ out.ok

\* C17: wall Play(id) from OnWall moves the wall to Focused(id): afterwards
\* onWall is false, current = id, phase(id) = Ingame, locks[id] is false,
\* the grid keys are ungrabbed, the process has been resumed and its frozen
\* flag is clear.
C17_PlayFocuses ==
    WallPlayed
        => /\ ~wl.onWall
           /\ wl.current = out.id
           /\ wl.states[out.id] = "Ingame"
           /\ ~wl.locks[out.id]
           /\ ~wl.grabbed
           /\ ~wl.stopped[out.id]
           /\ ~wl.frozen[out.id]

\* What wallPlay does establish: everything of C17 but the frozen flag, and
\* the SIGCONT is the first operation it issues.
C17_PlayFocusesButFlag ==
    WallPlayed
        => /\ ~wl.onWall
           /\ wl.current = out.id
           /\ wl.states[out.id] = "Ingame"
           /\ ~wl.locks[out.id]
           /\ ~wl.grabbed
           /\ ~wl.stopped[out.id]
           /\ Head(out.ops) = Signal(out.id, "SIGCONT")

\* A Play of the grid is handled only on the wall, and it changes something
\* only for an idle instance.
C17_PlayOnlyFromWall ==
    [][out'.call = "WallPlay"
           => /\ wl.onWall
              /\ out'.ok <=> wl.states[out'.id] = "Idle"]_vars

\* A forced-frozen instance was played.
C17_PlayedFrozen == WallPlayed /\ wl.frozen[out.id]

\* ResetInstance(i) is illegal in the wallState w.
ResetIllegal(w, i) ==
    w.locks[i] \/ w.frozen[i] \/ w.states[i] = "Generating"

\* The instances a handler dispatches wallResetInstance to: the instance of
\* a grid reset, the others of a reset-others that plays its instance, every
\* instance for the reset key on the wall.
ResetTargets(w, o) ==
    CASE o.call = "WallReset" -> {o.id}
      [] o.call = "WallResetOthers" ->
             IF w.states[o.id] = "Idle" THEN Ids \ {o.id} ELSE {}
      [] o.call = "ResetKey" /\ w.onWall -> Ids
      [] OTHER -> {}

\* The handler that led from w to v with outcome o left instance i alone: no
\* reset key for it, its phase as it was, no goroutine of a forced freeze
\* started for it.
NotReset(w, v, o, i) ==
    /\ \A k \in DOMAIN o.ops :
           ~(o.ops[k].id = i /\ o.ops[k].op = "KeyPress"
                 /\ o.ops[k].arg = "ResetKey")
    /\ v.states[i] = w.states[i]
    /\ \A t \in BagToSet(v.timers) :
           (t.kind = "force" /\ t.id = i)
               => CopiesIn(t, v.timers) = CopiesIn(t, w.timers)

\* The number of WallReset hooks among ops.
ResetHooks(ops) ==
    Cardinality({k \in DOMAIN ops : ops[k] = Hook("WallReset")})

\* C18: ResetInstance(id) is a no-op whenever the instance is locked, frozen
\* or Generating: no reset key is sent, its phase is unchanged, no forced
\* freeze is scheduled and no hook runs (one WallReset hook runs per
\* instance that was reset, a rejected grid reset changes nothing at all);
\* Worker.Reset returns ErrCannotReset without sending a key when the phase
\* is Generating.
C18_IllegalResetIsNoOp ==
    [][/\ \A i \in ResetTargets(wl, out') :
              ResetIllegal(wl, i) => NotReset(wl, wl', out', i)
       /\ ResetTargets(wl, out') # {}
              => ResetHooks(out'.ops)
                     = Cardinality({i \in ResetTargets(wl, out') :
                                       ~ResetIllegal(wl, i)})
       /\ (out'.call = "WallReset" /\ ResetIllegal(wl, out'.id))
              => /\ ~out'.ok
                 /\ out'.ops = <<>>
                 /\ wl' = [wl EXCEPT !.handled = @ + 1]
       /\ (out'.call = "WkReset" /\ wk.State = "Generating")
              => /\ ~out'.ok
                 /\ out'.ops = <<>>
                 /\ wk' = wk]_vars

\* C18 witness: a grid reset of a forced-frozen, unlocked instance that is
\* not Generating was rejected.
C18_Witness ==
    /\ out.call = "WallReset"
    /\ ~out.ok
    /\ wl.frozen[out.id]
    /\ ~wl.locks[out.id]
    /\ wl.states[out.id] # "Generating"

\* The sleeping goroutines of a forced freeze that the step from w to v
\* started for the reset of instance i.
ForceStarted(w, v, i) ==
    LET t(src) == [kind |-> "force", src |-> src, id |-> i]
    IN (CopiesIn(t("id"), v.timers) + CopiesIn(t("current"), v.timers))
           - (CopiesIn(t("id"), w.timers) + CopiesIn(t("current"), w.timers))

\* The forced freezes the cap asks for after a reset that left wallState v.
ForceDue(v) ==
    IF v.conf.ConcResets > 0 /\ wallGetResettingCount(v) > v.conf.ConcResets
    THEN 1 ELSE 0

\* A reset of one instance (a grid reset, or the reset key while an instance
\* is played) schedules one forced freeze if it leaves more instances
\* resetting than the cap, and none otherwise.
C19_OneFreezePerOverflow ==
    [][/\ (out'.call = "WallReset" /\ out'.ok)
              => ForceStarted(wl, wl', out'.id) = ForceDue(wl')
       /\ (out'.call = "ResetKey" /\ ~wl.onWall)
              => ForceStarted(wl, wl', wl.current) = ForceDue(wl')]_vars

\* C19: with a concurrent-reset cap C > 0, each reset that leaves more than
\* C instances in Generating or Preview schedules exactly one forced freeze
\* and the id eventually delivered on the forced-freeze channel is the
\* instance whose reset triggered the overflow, also for the reset of the
\* focused instance.
C19_FreezesTheOverflower ==
    [][/\ (out'.call = "WallReset" /\ out'.ok)
              => ForceStarted(wl, wl', out'.id) = ForceDue(wl')
       /\ (out'.call = "ResetKey" /\ ~wl.onWall)
              => ForceStarted(wl, wl', wl.current) = ForceDue(wl')
       /\ out'.call = "ForceTimer" => out'.updates = <<out'.id>>]_vars

\* The goroutine of a forced freeze delivers the instance whose reset
\* started it or the instance that is current when it wakes.
C19_DeliversResetOrCurrent ==
    [][out'.call = "ForceTimer"
           => out'.updates \in {<<out'.id>>, <<wl.current>>}]_vars

\* The window input operations: key down, press and up, click, focus, move.
InputOps ==
    {"KeyDown", "KeyPress", "KeyUp", "Click", "FocusWindow", "MoveWindow"}

\* No operation of ops is a window input to an instance whose process is
\* suspended when the operation is issued: stopped tells which processes
\* are suspended before ops, and SIGSTOP and SIGCONT among ops change it.
RECURSIVE NoInputWhileStopped(_, _)
NoInputWhileStopped(stopped, ops) ==
    IF ops = <<>> THEN TRUE
    ELSE LET o == Head(ops)
         IN /\ ~(o.op \in InputOps /\ o.id \in Ids /\ stopped[o.id])
            /\ NoInputWhileStopped(
                   CASE o.op = "SIGSTOP" -> [stopped EXCEPT ![o.id] = TRUE]
                     [] o.op = "SIGCONT" -> [stopped EXCEPT ![o.id] = FALSE]
                     [] OTHER -> stopped,
                   Tail(ops))

\* C20: from the moment an instance's process is suspended (forced freeze
\* or idle freeze) until it is resumed with SIGCONT, no window input
\* operation (key down/press/up, click, focus, move) targets that instance,
\* including the auto-pause macro sent on log updates.
C20_NoInputWhileStopped == [][NoInputWhileStopped(wl.stopped, out'.ops)]_vars

\* The handlers of the wall's grid and of the reset key on the wall resume a
\* process before they send it any input.
C20_GridResumesFirst ==
    [][(out'.call \in WallMods \/ (out'.call = "ResetKey" /\ wl.onWall))
           => NoInputWhileStopped(wl.stopped, out'.ops)]_vars

\* The focus key has just focused the window of the instance being played
\* while its process is suspended by a forced freeze.
C20_FocusedWhileStopped ==
    /\ out.call = "FocusKey"
    /\ out.id \in Ids
    /\ out.ops = <<FocusWindow(out.id)>>
    /\ wl.stopped[out.id]
    /\ wl.states[out.id] = "Ingame"

\* The number of reset-key presses for instance i among ops.
ResetKeys(ops, i) ==
    Cardinality({k \in DOMAIN ops : ops[k] = KeyPress(i, "ResetKey")})

\* C21: ResetAll (the reset key while OnWall) resets exactly once every
\* instance that is unlocked, not Generating and not frozen, and no other;
\* the handler returns only after all of them: every reset key and every
\* WallReset hook is issued inside it. Afterwards every such instance is
\* Generating, and every locked instance's phase, and the lock flags, the
\* wall and the current instance, are unchanged.
C21_ResetAllResetsUnlocked ==
    [][(out'.call = "ResetKey" /\ wl.onWall)
           => /\ \A i \in Ids :
                     IF ~wl.locks[i] /\ wl.states[i] # "Generating"
                             /\ ~wl.frozen[i]
                     THEN /\ ResetKeys(out'.ops, i) = 1
                          /\ wl'.states[i] = "Generating"
                     ELSE /\ ResetKeys(out'.ops, i) = 0
                          /\ wl'.states[i] = wl.states[i]
              /\ ResetHooks(out'.ops)
                     = Cardinality({i \in Ids : ResetKeys(out'.ops, i) = 1})
              /\ wl'.locks = wl.locks
              /\ wl'.onWall /\ wl'.current = wl.current]_vars

\* C21 witness: a reset-all has reset one instance and left a locked idle
\* instance alone.
C21_Witness ==
    /\ out.call = "ResetKey"
    /\ out.id = NoActive
    /\ \E i, j \in Ids :
           /\ wl.locks[i] /\ wl.states[i] = "Idle"
           /\ ResetKeys(out.ops, i) = 0
           /\ ResetKeys(out.ops, j) = 1

\* The instances other than id, in index order.
OthersInOrder(id) ==
    SelectSeq([k \in 1 .. NumInstances |-> k - 1], LAMBDA j : j # id)

\* The grid's ResetInstance handled for each instance of js in turn.
RECURSIVE ResetEach(_, _, _)
ResetEach(w, js, timestamp) ==
    IF js = <<>> THEN w
    ELSE ResetEach(wallHandleEvent(w, Head(js), "WallReset", timestamp),
                   Tail(js), timestamp)

\* Play(id) followed by ResetInstance(j) for every j # id in index order.
PlayThenResets(w, id, timestamp) ==
    ResetEach(wallHandleEvent(w, id, "WallPlay", timestamp),
              OthersInOrder(id), timestamp)

\* The wall state of w: phases, locks, frozen and suspended flags,
\* timestamps, current, onWall, the grab, the scheduled freezes.
WallStateOf(w) == [w EXCEPT !.ops = <<>>, !.handled = 0]

\* C22 as claimed: ResetOthers(id) produces the same resulting wall state
\* (phases, locks, current, onWall, scheduled freezes) as Play(id) followed
\* by ResetInstance(j) for every j # id in index order, for every starting
\* state.
C22_ResetOthersIsPlayThenResets ==
    [][out'.call = "WallResetOthers"
           => \E timestamp \in WallStamps :
                  WallStateOf(wl')
                      = WallStateOf(PlayThenResets(wl, out'.id, timestamp))]_vars

\* C22 as amended: for a starting state in which id is Idle, ResetOthers(id)
\* produces the wall state and issues the operations of Play(id) followed
\* by ResetInstance(j) for every j # id in index order; in any other
\* starting state ResetOthers(id) changes nothing and issues nothing.
C22_ResetOthersOfIdle ==
    [][out'.call = "WallResetOthers"
           => IF wl.states[out'.id] = "Idle"
              THEN \E timestamp \in WallStamps :
                      LET w == PlayThenResets(wl, out'.id, timestamp)
                      IN /\ WallStateOf(wl') = WallStateOf(w)
                         /\ out'.ops = w.ops
              ELSE /\ WallStateOf(wl') = WallStateOf(wl)
                   /\ out'.ops = <<>>
                   /\ ~out'.ok]_vars

\* C22 witness: a ResetOthers played its instance and reset another one.
C22_Witness ==
    /\ out.call = "WallResetOthers"
    /\ out.ok
    /\ wl.current = out.id /\ wl.states[out.id] = "Ingame" /\ ~wl.onWall
    /\ \E j \in Ids \ {out.id} :
           wl.states[j] = "Generating" /\ ResetKeys(out.ops, j) = 1

\* The operations of ops with the name op.
OpsNamed(ops, op) == SelectSeq(ops, LAMBDA o : o.op = op)

\* C23: Lock(id) flips locks[id] and its indicator on every call, so that a
\* second Lock(id) restores the original flag and indicator; it changes no
\* other instance's lock and no phase, runs the Lock or the Unlock hook,
\* and requests High affinity (for id) only when the call locks an instance
\* whose phase is Preview.
C23_LockToggles ==
    [][out'.call = "WallLock"
           => LET id == out'.id
                  again == wallHandleEvent(wl', id, "WallLock", MaxWallStamp)
              IN /\ wl'.locks = [wl.locks EXCEPT ![id] = ~wl.locks[id]]
                 /\ wl'.states = wl.states
                 /\ OpsNamed(out'.ops, "SetVisible")
                        = <<SetVisible(id, ~wl.locks[id])>>
                 /\ OpsNamed(out'.ops, "Hook")
                        = <<Hook(IF wl.locks[id] THEN "Unlock" ELSE "Lock")>>
                 /\ OpsNamed(out'.ops, "SetAffinity")
                        = IF ~wl.locks[id] /\ wl.states[id] = "Preview"
                          THEN <<SetAffinity(id, "high")>> ELSE <<>>
                 /\ again.locks = wl.locks
                 /\ again.states = wl.states
                 /\ OpsNamed(again.ops, "SetVisible")
                        = <<SetVisible(id, wl.locks[id])>>]_vars

\* C23 witness: a Lock has locked an instance in Preview, with another
\* instance locked before and after it.
C23_Witness ==
    /\ out.call = "WallLock"
    /\ wl.locks[out.id]
    /\ wl.states[out.id] = "Preview"
    /\ SetAffinity(out.id, "high") \in {out.ops[k] : k \in DOMAIN out.ops}
    /\ \E j \in Ids \ {out.id} : wl.locks[j]

\* The instances other than the one being played that are locked and Idle.
LockedIdle(w) ==
    {i \in Ids \ {w.current} : w.locks[i] /\ w.states[i] = "Idle"}

C24_WitnessWall ==
    /\ out.call = "ResetKey"
    /\ out.id \in Ids
    /\ wl.conf.GoToLocked
    /\ wl.onWall /\ wl.grabbed
    /\ \E i \in Ids : wl.locks[i] /\ wl.states[i] # "Idle"

\* The affinity class the rule gives for a log update, "none" for no
\* request.
AffinityRule(locked, update) ==
    IF locked /\ update[1] # "Idle" THEN "high"
    ELSE IF update[1] = "Generating" THEN "high"
    ELSE IF update[1] = "Preview"
    THEN (IF update[2] = "AtThreshold" THEN "low" ELSE "none")
    ELSE "idle"

\* C25: with affinity management enabled, the affinity class applied on a
\* log update is a function of (locked, new phase, progress): a locked
\* instance whose new phase is not Idle gets High; otherwise Generating
\* gets High, Preview with Progress >= low-threshold gets Low, Preview below
\* the threshold gets no request, and Idle gets the Idle class. Without
\* affinity management a log update requests nothing.
C25_AffinityOnLogUpdate ==
    [][out'.call = "LogUpdate"
           => LET class == AffinityRule(wl.locks[out'.id], out'.updates)
              IN OpsNamed(out'.ops, "SetAffinity")
                     = IF wl.conf.Affinity /\ class # "none"
                       THEN <<SetAffinity(out'.id, class)>> ELSE <<>>]_vars

\* C25 witness: a locked instance reported a preview at the threshold and
\* got High.
C25_Witness ==
    /\ out.call = "LogUpdate"
    /\ out.updates = <<"Preview", "AtThreshold">>
    /\ wl.locks[out.id]
    /\ OpsNamed(out.ops, "SetAffinity") = <<SetAffinity(out.id, "high")>>

\* An unlocked instance reported a preview below the threshold and nothing
\* was requested.
C25_WitnessBelow ==
    /\ out.call = "LogUpdate"
    /\ out.updates = <<"Preview", "Below">>
    /\ wl.conf.Affinity
    /\ ~wl.locks[out.id]
    /\ OpsNamed(out.ops, "SetAffinity") = <<>>

\* The bindings of the sequence binds.
BindsOf(binds) == {binds[k] : k \in DOMAIN binds}

\* Binding b is a best one of the set S: none of S has more keys, and none
\* with as many keys has more buttons.
BestOf(b, S) ==
    /\ b \in S
    /\ \A c \in S :
           /\ KeyCount(c) <= KeyCount(b)
           /\ KeyCount(c) = KeyCount(b) => ButtonCount(c) <= ButtonCount(b)

\* C26: on each poll tick, among all bindings whose full key set and button
\* set are pressed (they are lastBinds after the tick), the emitted binding
\* is one with the maximum key count and, among those, the maximum button
\* count, for every set of configured bindings and every iteration order
\* of the binding map; at most one Input is emitted per tick, and none iff
\* no binding is pressed.
C26_LargestChordWins ==
    (out.call = "Poll" /\ out.ok)
        => /\ Len(out.updates) <= 1
           /\ out.updates = <<>> <=> im.lastBinds = <<>>
           /\ out.updates # <<>>
                  => BestOf(out.updates[1].Bind, BindsOf(im.lastBinds))

\* What the poll does guarantee: one Input at most, none iff no binding is
\* pressed, and the emitted binding is a pressed one.
C26_EmitsPressedBinding ==
    (out.call = "Poll" /\ out.ok)
        => /\ Len(out.updates) <= 1
           /\ out.updates = <<>> <=> im.lastBinds = <<>>
           /\ out.updates # <<>>
                  => out.updates[1].Bind \in BindsOf(im.lastBinds)

\* The binding emitted by the handler with outcome o, if it was a poll that
\* emitted one.
Winner(o) ==
    IF o.call = "Poll" /\ o.updates # <<>> THEN {o.updates[1].Bind} ELSE {}

\* C27: the repeat flag of an emitted Input is true if and only if the same
\* binding was the winning (emitted) binding on the immediately preceding
\* poll tick; a binding that was merely satisfied but lost to a larger chord
\* on the preceding tick is reported as not repeated.
C27_HeldIffWonLastTick ==
    [][(out'.call = "Poll" /\ out'.updates # <<>>)
           => (out'.updates[1].Held
                   <=> out'.updates[1].Bind \in Winner(out))]_vars

\* What the flag does tell: the binding was pressed (it won or it lost) on
\* the last tick whose queries succeeded.
C27_HeldIffPressedBefore ==
    [][(out'.call = "Poll" /\ out'.updates # <<>>)
           => (out'.updates[1].Held
                   <=> out'.updates[1].Bind \in BindsOf(im.lastBinds))]_vars

----------------------------------------------------------------------------
(***************************************************************************)
(* The reset counter: what it counts, when it writes and what the file     *)
(* holds when counter.Run has returned.                                    *)
(***************************************************************************)
\* The count each parsable count file stands for.
StartCount(f) ==
    CASE f = <<>> -> 0
      [] f = <<"9">> -> 9
      [] f = <<"4", "1">> -> 41
      [] f \in { <<"0", "7">>, <<" ", "7">>, <<"7", "\n">> } -> 7

\* The count a restart would load from the file as it is now.
Persisted == Atoi(TrimSpace(ctr.file))

\* C28: when counter.Run has returned after the cancellation, the value the
\* file holds is the count loaded at startup plus the number of Increment
\* calls that returned before the cancellation.
C28_PersistedIsLoadedPlusIncrements ==
    out.call = "CtrCancelled" =>
        Persisted = [ok |-> TRUE, val |-> StartCount(ctr.file0) + incs]

\* C28, the drain alone: at the cancellation every queued increment is taken
\* before the final write, whose digits are those of the count loaded at
\* startup plus the number of Increment calls and stand at the head of the
\* file.
C28_FinalWriteCountsAll ==
    out.call = "CtrCancelled" =>
        LET digits == Itoa(StartCount(ctr.file0) + incs) IN
        /\ ctr.taken = incs
        /\ ctr.count = StartCount(ctr.file0) + incs
        /\ out.updates # <<>>
        /\ out.updates[Len(out.updates)] = digits
        /\ Len(ctr.file) >= Len(digits)
        /\ SubSeq(ctr.file, 1, Len(digits)) = digits

C29_WitnessShutdown ==
    /\ out.call = "CtrCancelled"
    /\ Len(out.updates) = 2

\* C30: the count in memory is the count loaded at startup (0 for an absent
\* or empty file) plus the number of increments taken so far, and it never
\* decreases.
C30_CountIsLoadedPlusConsumed ==
    /\ [](ctr.pc \in {"run", "done"} /\ conf.CountResets =>
              ctr.count = StartCount(ctr.file0) + ctr.taken)
    /\ [][ctr'.count >= ctr.count]_vars

\* C30: the file held "41" and three increments were taken: the count is 44.
C30_Witness ==
    /\ ctr.file0 = <<"4", "1">>
    /\ ctr.taken = 3
    /\ ctr.count = 44

\* C31: once a handler of counter.Run has written the count, a restart reads
\* that count back: newCounter over the file as it is now succeeds and loads
\* the count that was written.
C31_RoundTrip ==
    (out.call \in {"CtrRecv", "CtrCancelled"} /\ out.updates # <<>>) =>
        LET c == newCounter(TRUE, ctr.file, now) IN
        c.pc = "run" /\ c.count = ctr.count

\* C31, where the digits written cover what the file held at startup: the
\* count written is the count read back.
C31_RoundTripIfCovered ==
    (/\ out.call \in {"CtrRecv", "CtrCancelled"}
     /\ out.updates # <<>>
     /\ Len(ctr.file0) <= Len(Itoa(ctr.count))) =>
        LET c == newCounter(TRUE, ctr.file, now) IN
        c.pc = "run" /\ c.count = ctr.count

----------------------------------------------------------------------------
(***************************************************************************)
(* Instance discovery.                                                     *)
(***************************************************************************)
\* The ids of the game windows a discovery was given, one per window.
FoundIds ==
    [k \in {j \in 1 .. Len(disc.windows) : disc.windows[j].kind = "game"}
        |-> disc.windows[k].Id]

\* C32: a discovery that succeeds was given game windows whose ids are
\* exactly 0..N-1, each once, and returns one instance per game window,
\* element i having id i; a discovery fails when it was given no game
\* window, none with id 0, or ids that have a gap or a duplicate.
C32_DiscoveryIdsSequential ==
    disc.pc = "done" =>
        LET wins == DOMAIN FoundIds
            N == Cardinality(wins)
            ids == {FoundIds[k] : k \in wins} IN
        /\ disc.ok =>
            /\ N > 0
            /\ ids = 0 .. N - 1
            /\ Len(disc.instances) = N
            /\ \A i \in 1 .. N : disc.instances[i].Id = i - 1
            /\ {disc.instances[i].Wid : i \in 1 .. N} = wins
        /\ N = 0 => ~disc.ok
        /\ 0 \notin ids => ~disc.ok
        /\ ids # 0 .. N - 1 => ~disc.ok

\* C32: two instances found in the order 1, 0 are returned in the order 0, 1.
C32_Witness ==
    /\ disc.pc = "done"
    /\ disc.ok
    /\ Len(disc.instances) >= 2
    /\ disc.instances[1].Wid > disc.instances[2].Wid

\* C32: a discovery given the ids 0 and 2 has failed.
C32_WitnessGap ==
    /\ disc.pc = "done"
    /\ disc.err = "instances do not have sequential IDs"

----------------------------------------------------------------------------
(***************************************************************************)
(* LastPreview.                                                            *)
(***************************************************************************)
\* The step is a log update that moves instance id into Preview from another
\* phase.
EntersPreview(id) ==
    /\ WriteStep(id)
    /\ instances'[id].Type = "Preview"
    /\ instances[id].Type # "Preview"

\* C33: a step sets an instance's LastPreview to the current time when it is
\* a log update that moves the instance into Preview from another phase;
\* every other step (a Preview-to-Preview update, an update to another
\* phase, any other operation) leaves LastPreview unchanged.
C33_LastPreviewOnEntering ==
    [][\A id \in Ids :
          /\ EntersPreview(id) => instances'[id].LastPreview = now
          /\ ~EntersPreview(id) =>
                 instances'[id].LastPreview = instances[id].LastPreview]_vars

\* C33: a progress-only update of a preview entered earlier has kept the
\* time of entering.
C33_Witness ==
    /\ out.call = "Write"
    /\ out.ok
    /\ out.input = "Preview"
    /\ instances[out.id].Type = "Preview"
    /\ instances[out.id].LastPreview > 0
    /\ instances[out.id].LastPreview < now

\* C33: an update has just moved an instance into Preview at a time after
\* startup.
C33_WitnessEntered ==
    /\ out.call = "Write"
    /\ out.ok
    /\ out.input = "Preview"
    /\ instances[out.id].LastPreview = now
    /\ now > GracePeriod

----------------------------------------------------------------------------
(***************************************************************************)
(* Manager.Run and Controller.run on m.mu and evtch.                       *)
(***************************************************************************)
\* Manager.Run holds m.mu in its send on the full evtch and the Controller
\* waits for m.mu in Manager.Play or Manager.Reset.
MutualBlock == mgrPc = "sendEvt" /\ evtch = EvtchCap /\ ctlPc = "lock"

\* C34: Manager.Run and Controller.run never block each other: no state has
\* Manager.Run holding m.mu while blocked in its send on the full evtch and
\* the Controller blocked in m.mu.Lock() of Manager.Reset or Manager.Play.
C34_NoMutualBlock == ~MutualBlock

\* C34, what the block is once reached: neither loop ever moves again, the
\* Update stays unsent and evtch stays full.
C34_MutualBlockIsFinal ==
    [][MutualBlock =>
           /\ MutualBlock'
           /\ sending' = sending
           /\ instances' = instances
           /\ active' = active]_vars

----------------------------------------------------------------------------
(***************************************************************************)
(* The wall's delayed freezes and the instance being played.               *)
(***************************************************************************)
\* Instance id is the one being played.
Played(id) == ~wl.onWall /\ wl.current = id /\ wl.states[id] = "Ingame"

\* The handler that has just run suspended instance id.
Suspended(id) ==
    \E k \in DOMAIN out.ops : out.ops[k] = Signal(id, "SIGSTOP")

\* C35: the instance being played is never sent a suspend signal, neither by
\* a forced freeze an earlier reset scheduled nor by an idle freeze.
C35_PlayedNeverSuspended ==
    \A id \in Ids :
        (out.call \in {"ForceFreeze", "ToFreeze"} /\ Suspended(id))
            => ~Played(id)

\* C35, the idle freeze alone: it suspends only an instance whose phase is
\* Idle, so never the one being played.
C35_IdleFreezeSparesPlayed ==
    \A id \in Ids :
        (out.call = "ToFreeze" /\ Suspended(id))
            => (wl.states[id] = "Idle" /\ ~Played(id))

\* C35: an idle freeze came due for the instance being played and did not
\* suspend it.
C35_IdleFreezeSkipped ==
    /\ out.call = "ToFreeze"
    /\ ~out.ok
    /\ Played(out.id)
    /\ out.ops = <<>>

----------------------------------------------------------------------------
(***************************************************************************)
(* Forced freezes and their unfreeze.                                      *)
(***************************************************************************)
Resetting(w) == {i \in Ids : w.states[i] \in {"Generating", "Preview"}}

\* Every instance is resetting, suspended by a forced freeze and flagged
\* frozen: no instance runs that could report Idle, and the wall resets no
\* frozen instance and plays no resetting one.
DeadFrozen ==
    \A i \in Ids : i \in Resetting(wl) /\ wl.frozen[i] /\ wl.stopped[i]

\* C36: an instance suspended by a forced freeze is resumed in the end; in
\* particular the wall never reaches a state in which every resetting
\* instance is frozen and no log update of a running instance can come to
\* unfreeze one.
C36_FrozenCanThaw == ~DeadFrozen

\* C36, what that state is once reached: as long as no suspended instance
\* reports to the log, every instance stays resetting, suspended and frozen,
\* whatever keys, pointer events and timers follow.
C36_DeadFrozenIsFinal ==
    [][(DeadFrozen /\ ~(out'.call = "LogUpdate" /\ wl.stopped[out'.id]))
           => DeadFrozen']_vars

\* C36, the unfreeze that does happen: a log update reporting Idle under a
\* reset cap resumes the instance that was force-frozen first and clears its
\* flag.
C36_IdleUpdateThaws ==
    [][(out'.call = "LogUpdate" /\ out'.updates = <<"Idle">>
            /\ wl.conf.ConcResets > 0 /\ wl.toUnfreeze # <<>>)
           => LET un == Head(wl.toUnfreeze) IN
              /\ ~wl'.frozen[un]
              /\ ~wl'.stopped[un]
              /\ wl'.toUnfreeze = Tail(wl.toUnfreeze)]_vars

----------------------------------------------------------------------------
(***************************************************************************)
(* The reset of all instances and the cap on concurrent resets.            *)
(***************************************************************************)
\* The goroutines started between wallState w and wallState v; the reset of
\* all instances starts none but those of forced freezes.
TimersStarted(w, v) == BagCardinality(v.timers) - BagCardinality(w.timers)

\* The instances over the cap in wallState v.
Overflow(v) ==
    IF Cardinality(Resetting(v)) > v.conf.ConcResets
    THEN Cardinality(Resetting(v)) - v.conf.ConcResets
    ELSE 0

\* The step is a reset of all instances under a cap that was kept before it.
ResetAllUnderCap ==
    /\ out'.call = "ResetKey"
    /\ wl.onWall
    /\ wl.conf.ConcResets > 0
    /\ Cardinality(Resetting(wl)) <= wl.conf.ConcResets

\* C37: however the goroutines of a reset of all instances interleave, the
\* number of forced freezes it schedules is max(0, R - C), R the number of
\* instances in Generating or Preview after it and C the cap, given that at
\* most C instances were resetting before it.
C37_FreezesAreTheOverflow ==
    [][ResetAllUnderCap => TimersStarted(wl, wl') = Overflow(wl')]_vars

\* C37, what holds for every interleaving: at least the overflow is
\* scheduled, at most one forced freeze per instance reset, and none without
\* an overflow.
C37_FreezesCoverTheOverflow ==
    [][ResetAllUnderCap =>
           /\ TimersStarted(wl, wl') >= Overflow(wl')
           /\ TimersStarted(wl, wl') <= Cardinality(ResetAllResetting(wl))
           /\ Overflow(wl') = 0 => TimersStarted(wl, wl') = 0]_vars

----------------------------------------------------------------------------
(***************************************************************************)
(* The ids of the wall's event dispatch.                                   *)
(***************************************************************************)
\* The handler that has just run was one of a grid key or pointer event.
GridEvent == out.call \in {"GridKey", "PointerMove", "PointerButton"}

\* C38: every wall action dispatched from a key, pointer-move or button
\* event has an instance index 0 <= id < number of instances; an event that
\* maps to no instance is ignored, and no per-instance slice is indexed out
\* of range.
C38_DispatchInRange ==
    /\ (GridEvent /\ out.ok /\ out.updates[1] \in WallMods) => out.id \in Ids
    /\ wl.pc # "panic"

\* C38, the pointer: a move or button event is dispatched only with the
\* index of an instance.
C38_PointerInRange ==
    (out.call \in {"PointerMove", "PointerButton"} /\ out.ok)
        => out.id \in Ids

\* C38, the keys: a grid key is dispatched with an id from 0 to the number of
\* instances, that number included, and only that id can panic.
C38_KeyUpToCount ==
    /\ (out.call = "GridKey" /\ out.ok) =>
           (out.id \in 0 .. NumInstances /\ out.id <= MaxGridId)
    /\ wl.pc = "panic" =>
           (out.call = "GridKey" /\ out.ok /\ out.id = NumInstances)

\* C38: a pointer event past the last instance was ignored.
C38_PointerIgnored ==
    /\ out.call = "PointerButton"
    /\ ~out.ok
    /\ out.id >= NumInstances

----------------------------------------------------------------------------
(***************************************************************************)
(* The Worker's active lock.                                               *)
(***************************************************************************)
\* The run goroutine has just returned after a fatal watcher event.
FatalExit == out.call \in {"WkErrorsClosed", "WkEventsClosed", "WkLogGone"}

\* C39: the active lock is held only while the run goroutine exists: it is
\* free when Start has returned an error with no goroutine running, when
\* Stop has returned and when the goroutine has exited after a fatal
\* watcher event; and at most one run goroutine exists.
C39_ActiveOnlyWhileRunning ==
    /\ wk.active => wk.routines = 1
    /\ (out.call = "Start" /\ ~out.ok /\ wk.routines = 0) => ~wk.active
    /\ out.call = "Stop" => ~wk.active
    /\ FatalExit => ~wk.active
    /\ wk.routines <= 1

\* C39, the goroutine's side: the lock is free whenever the goroutine has
\* returned by itself, a second goroutine is never started, and a Start that
\* finds the lock taken changes nothing.
C39_FreeAfterExit ==
    /\ (FatalExit \/ out.call = "StopExit") => (~wk.active /\ wk.routines = 0)
    /\ wk.routines <= 1
    /\ wk.routines = 1 => wk.active
    /\ (out.call = "Start" /\ out.input = "worker already running")
           => wk.active

\* C39: Stop has returned and the goroutine still holds the lock.
C39_StopReturnedLocked == out.call = "Stop" /\ wk.active /\ wk.routines = 1

\* C39: no goroutine exists and Start fails with "worker already running".
C39_StartRefusedForEver ==
    /\ out.call = "Start"
    /\ out.input = "worker already running"
    /\ wk.routines = 0

====
